---- MODULE Spec2Model ----
(***************************************************************************)
(* A model of the message builder server (src/server.js): the transport   *)
(* helper sb, the directory scan getAllUsersMap, and the request handlers  *)
(* POST /api/verify-users, POST /api/create and GET /api/items.            *)
(*                                                                         *)
(* Each request is a sequence of steps that suspend only at an outbound    *)
(* call (an await): one action is the code that runs from one await to the *)
(* next.  Every specification below handles one request of one kind, its   *)
(* inputs and the platform's population drawn in the initial state and the *)
(* platform's answers drawn at each call.                                  *)
(***************************************************************************)
EXTENDS Integers, Sequences, FiniteSets, TLC

VARIABLES
  op,           \* the operation this behaviour runs
  pc,           \* the handler's position
  response,     \* what the handler answered: NoResponse until it answers
  calls,        \* the outbound calls issued so far, in order, with outcome
  \* ---- sb, run attempt by attempt
  sbMethod,     \* sb's method argument
  sbHasBody,    \* whether sb was given a body
  retries,      \* sb's local `retries`
  sbStatuses,   \* the status of every fetch attempt made, in order
  sbWaits,      \* the delays waited, in ms, in order
  sbOutcome,    \* how the call ended: Pending until it returns or throws
  \* ---- POST /api/verify-users
  reqStoreIds,  \* req.body.storeIds
  dirSize,      \* number of people in the platform's directory
  dirPeople,    \* the profile field of the people at PersonPos
  offset,       \* the scan's local `offset`
  scanWaits,    \* the inter-page pauses taken, in ms
  userMap,      \* getAllUsersMap's map
  foundUsers,
  notFoundIds,
  \* ---- POST /api/create
  rev,            \* the revision of the handler: "current" or "chunked"
  verifiedUsers,  \* req.body.verifiedUsers
  title,          \* req.body.title
  department,     \* req.body.department
  taskFile,       \* req.files.taskCsv: present, and its lines
  profileFile,    \* whether req.files.profileCsv is present
  clock,          \* the server's clock, in ms, when the request arrives
  now,            \* the handler's `now`: Date.now() as it read it
  projSize,       \* number of installations of the space
  projs,          \* the installations that are not filler, by position
  projectMap,     \* discoverProjectsByStoreIds' projectMap
  wf,             \* per matched project: its workflow's state and progress
  channel,        \* the channel the platform created
  post,           \* the post the platform created
  taskCount,
  importCount,
  \* ---- GET /api/items
  items,          \* the handler's `items`
  pending,        \* the item whose post is being fetched
  rowAt,          \* the place in the page of the installation in hand
  \* ---- a second POST /api/create, handled while the first one is
  concurrent      \* its position, its `now`, its channel and its answer

sbVars     == <<sbMethod, sbHasBody, retries, sbStatuses, sbWaits, sbOutcome>>
verifyVars == <<reqStoreIds, dirSize, dirPeople, offset, scanWaits,
                userMap, foundUsers, notFoundIds>>
createVars == <<rev, verifiedUsers, title, department, taskFile, profileFile,
                clock, now, projSize, projs, projectMap, wf, channel, post,
                taskCount, importCount>>
listVars   == <<items, pending, rowAt>>
vars       == <<op, pc, response, calls, sbVars, verifyVars, createVars,
                listVars, concurrent>>

----------------------------------------------------------------------------
(* Bounds of the model.                                                    *)

\* The directory holds 0, 50, ..., MaxHalfPages * 50 people.
MaxHalfPages == 4
\* A verify request names at most MaxReq identifiers.
MaxReq == 2
\* A create request targets at most MaxTargets accounts.
MaxTargets == 2
\* A task file has at most MaxRows lines.
MaxRows == 2
\* The chunked fan-out is run on at most MaxFanout matched projects, with
\* task files of at most MaxChunkRows tasks.
MaxFanout == 6
MaxChunkRows == 1
\* GET /api/items: the installations of the space that are not filler.
MaxInst == 2
\* Two creates at once: the milliseconds the clock can show.
MaxClock == 2

----------------------------------------------------------------------------
(* JavaScript values.                                                      *)

\* A JSON scalar as the code meets it: a string, a number, or nothing
\* (undefined).  `val` is the decimal or literal text of the value.
Str(s)  == [kind |-> "str", val |-> s]
Num(s)  == [kind |-> "num", val |-> s]
RawNone == [kind |-> "none", val |-> ""]

\* if (x): undefined, "" and 0 are falsy.
Truthy(x) ==
  CASE x.kind = "none" -> FALSE
    [] x.kind = "str"  -> x.val # ""
    [] x.kind = "num"  -> x.val # "0"

\* String(x): a string is itself, a number its decimal text.
String(x) == IF x.kind = "none" THEN "undefined" ELSE x.val

\* The elements of a sequence.
Range(s) == {s[i] : i \in DOMAIN s}

\* Sequences over S of length at most n.
SeqUpTo(S, n) == UNION {[1..k -> S] : k \in 0..n}

Min(a, b) == IF a < b THEN a ELSE b

\* The handler has not answered yet.
NoResponse == [status |-> 0, error |-> "", body |-> <<>>]

\* The error answered without the message of what failed.
ErrorResponse_Generic(code, message) ==
  [status |-> code, error |-> "Internal Server Error", body |-> <<>>]

\* res.status(code).json({ error })
ErrorResponse(code, message) ==
  [status |-> code, error |-> message, body |-> <<>>]

----------------------------------------------------------------------------
(* sb: the transport helper.                                               *)

Methods  == {"GET", "POST", "PUT", "PATCH", "DELETE"}
\* The statuses the platform answers with: success, no content, rate
\* limit, client error, server error.
Statuses == {200, 204, 429, 400, 500}

\* res.ok
ResOk(status) == status >= 200 /\ status <= 299

Pending == [kind |-> "pending", status |-> 0, message |-> ""]

\* The text of the platform's answer to a request it refuses: res.text().
ResText(status) == IF status >= 500 THEN "Internal Server Error"
                                    ELSE "Bad Request"
\* `API ${res.status}: ${txt}`
ApiError(status) == "API " \o ToString(status) \o ": " \o ResText(status)

\* sbPass retrying on a server error as on a 429.
sbPass_RetryServerErrors(r, status) ==
  IF status = 429 \/ status >= 500
    THEN [next |-> "continue", retries |-> r - 1, wait |-> 2000,
          status |-> status, message |-> ""]
  ELSE IF ~ResOk(status)
    THEN [next |-> "throw", retries |-> r, wait |-> 0, status |-> status,
          message |-> ApiError(status)]
  ELSE IF status = 204
    THEN [next |-> "return", retries |-> r, wait |-> 0, status |-> status,
          message |-> "{}"]
  ELSE [next |-> "return", retries |-> r, wait |-> 0, status |-> status,
        message |-> "json"]

\* sbPass retrying on every answer that is not a success.
sbPass_RetryErrors(r, status) ==
  IF status = 429 \/ ~ResOk(status)
    THEN [next |-> "continue", retries |-> r - 1, wait |-> 2000,
          status |-> status, message |-> ""]
  ELSE IF status = 204
    THEN [next |-> "return", retries |-> r, wait |-> 0, status |-> status,
          message |-> "{}"]
  ELSE [next |-> "return", retries |-> r, wait |-> 0, status |-> status,
        message |-> "json"]

\* One pass of sb's while body on a fetch answered `status`: what the pass
\* does to `retries`, what it waits, and how it leaves the loop.
sbPass(r, status) ==
  IF status = 429
    THEN [next |-> "continue", retries |-> r - 1, wait |-> 2000,
          status |-> status, message |-> ""]
  ELSE IF ~ResOk(status)
    THEN [next |-> "throw", retries |-> r, wait |-> 0, status |-> status,
          message |-> ApiError(status)]
  ELSE IF status = 204
    THEN [next |-> "return", retries |-> r, wait |-> 0, status |-> status,
          message |-> "{}"]
  ELSE [next |-> "return", retries |-> r, wait |-> 0, status |-> status,
        message |-> "json"]

\* `let retries = 3`
InitialRetries == 3

\* How a pass ends the call: the loop is left by return or throw, or, after
\* a `continue`, by the loop test failing and the throw that follows it.
sbEnd(p) ==
  IF p.next = "continue"
    THEN IF p.retries > 0
           THEN Pending
           ELSE [kind |-> "throw", status |-> p.status,
                 message |-> "API Timeout after retries"]
    ELSE [kind |-> p.next, status |-> p.status, message |-> p.message]

\* sb as a function of the platform's answers to its successive attempts:
\* the outcome, or Pending when the answers run out first.
RECURSIVE sbRun(_, _)
sbRun(r, statuses) ==
  IF statuses = <<>>
    THEN Pending
    ELSE LET p == sbPass(r, Head(statuses))
             e == sbEnd(p)
         IN  IF e.kind = "pending" THEN sbRun(p.retries, Tail(statuses))
                                   ELSE e

sb(statuses) == sbRun(InitialRetries, statuses)

\* The platform's answers to one call, as far as sb reads them.
PlatformRuns ==
  {<<200>>, <<204>>, <<500>>, <<429, 200>>, <<429, 429, 400>>,
   <<429, 429, 429>>}

SbIdle ==
  /\ sbMethod = "GET"
  /\ sbHasBody = FALSE
  /\ retries = InitialRetries
  /\ sbStatuses = <<>>
  /\ sbWaits = <<>>
  /\ sbOutcome = Pending

\* One fetch attempt and the pass of the loop body on its answer.
sbAttempt ==
  /\ op = "sb"
  /\ sbOutcome.kind = "pending"
  /\ retries > 0
  /\ \E status \in Statuses :
       LET p == sbPass(retries, status) IN
       /\ retries' = p.retries
       /\ sbStatuses' = Append(sbStatuses, status)
       /\ sbWaits' = IF p.wait > 0 THEN Append(sbWaits, p.wait) ELSE sbWaits
       /\ sbOutcome' = sbEnd(p)
  /\ UNCHANGED <<op, concurrent, listVars, pc, response, calls, sbMethod, sbHasBody, verifyVars,
                 createVars>>

----------------------------------------------------------------------------
(* The platform's directory.                                               *)

\* `const limit = 100`: the page size of every paginated scan.
limit == 100

\* The directory is dirSize people, in a fixed order.  Only the people at
\* the positions PersonPos (0-based) may carry the store-id profile field;
\* dirPeople[i] is the field's value for the person at PersonPos[i], and
\* everybody else has no such field.  UserId[i] is that person's user.id.
PersonPos == <<0, 100, 150>>
UserId    == <<"u1", "u2", "u3">>
People    == DOMAIN PersonPos

DirSizes  == {k * (limit \div 2) : k \in 0..MaxHalfPages}
\* What the profile field of a person can hold.
ProfileVals == {RawNone, Str(""), Str("100"), Str("200"), Num("100")}

\* The number of rows the platform returns for the page at offset `off`.
PageLen(size, off) == IF off >= size THEN 0 ELSE Min(limit, size - off)

\* The people of PersonPos in the page at `off`, in directory order.
PagePeople(size, off) ==
  {i \in People : PersonPos[i] >= off /\ PersonPos[i] < off + PageLen(size, off)}

EmptyMap == [k \in {} |-> [id |-> "", csvId |-> ""]]

\* userMap.set(key, value)
MapSet(m, key, value) ==
  [k \in DOMAIN m \cup {key} |-> IF k = key THEN value ELSE m[k]]

\* The loop body without the test of the profile field.
ScanUser_FieldUntested(m, people, i) ==
  LET storeId == people[i] IN
  MapSet(m, String(storeId), [id |-> UserId[i], csvId |-> String(storeId)])

\* The body of `for (const user of res.data)` for the person i.
ScanUser(m, people, i) ==
  LET storeId == people[i] IN
  IF Truthy(storeId)
    THEN MapSet(m, String(storeId), [id |-> UserId[i], csvId |-> String(storeId)])
    ELSE m

\* The whole for loop over a page: its people in directory order.
RECURSIVE ScanPage(_, _, _)
ScanPage(m, people, todo) ==
  IF todo = {} THEN m
  ELSE LET i == CHOOSE j \in todo : \A k \in todo : PersonPos[j] <= PersonPos[k]
       IN  ScanPage(ScanUser(m, people, i), people, todo \ {i})

----------------------------------------------------------------------------
(* POST /api/verify-users                                                  *)

\* What a request can carry as storeIds.
RequestVals == {Str("100"), Str("200"), Str("999"), Num("100")}
Requests ==
  {[kind |-> "array", items |-> s] : s \in SeqUpTo(RequestVals, MaxReq)}
    \cup {[kind |-> "missing", items |-> <<>>],
          [kind |-> "string", items |-> <<>>]}

VerifyIdle ==
  /\ reqStoreIds = [kind |-> "missing", items |-> <<>>]
  /\ dirSize = 0
  /\ dirPeople = [i \in People |-> RawNone]
  /\ offset = 0
  /\ scanWaits = <<>>
  /\ userMap = EmptyMap
  /\ foundUsers = <<>>
  /\ notFoundIds = <<>>

\* The handler up to its first await: the validation, then getAllUsersMap
\* starts.
VerifyUsers_Begin ==
  /\ op = "verify" /\ pc = "start"
  /\ IF reqStoreIds.kind # "array"
       THEN /\ response' = ErrorResponse(400, "Invalid storeIds")
            /\ pc' = "done"
       ELSE /\ response' = response
            /\ pc' = "scan"
  /\ UNCHANGED <<op, concurrent, listVars, calls, sbVars, verifyVars, createVars>>

\* A logged outbound call.
Call(method, path, at, out, rows) ==
  [method |-> method, path |-> path, at |-> at, out |-> out, rows |-> rows]

\* getAllUsersMap_Pass letting sb's throw leave the function.
getAllUsersMap_Pass_Rethrow(m, off, res, size, people) ==
  LET rows == IF res.kind = "return" /\ res.message = "json"
                THEN PageLen(size, off) ELSE 0
  IN
  IF res.kind = "throw"
    THEN [map |-> m, offset |-> off, rows |-> 0, done |-> TRUE, wait |-> 0,
          threw |-> TRUE]
  ELSE IF rows = 0 \/ rows < limit
    THEN [map |-> ScanPage(m, people, PagePeople(size, off)), offset |-> off,
          rows |-> rows, done |-> TRUE, wait |-> 0, threw |-> FALSE]
  ELSE [map |-> ScanPage(m, people, PagePeople(size, off)),
        offset |-> off + limit, rows |-> rows, done |-> FALSE,
        wait |-> IF (off + limit) % 1000 = 0 THEN 200 ELSE 0, threw |-> FALSE]

\* getAllUsersMap_Pass without `if (res.data.length < limit) break`.
getAllUsersMap_Pass_NoShortBreak(m, off, res, size, people) ==
  LET rows == IF res.kind = "return" /\ res.message = "json"
                THEN PageLen(size, off) ELSE 0
  IN
  IF res.kind = "throw" \/ rows = 0
    THEN [map |-> m, offset |-> off, rows |-> 0, done |-> TRUE, wait |-> 0,
          threw |-> FALSE]
  ELSE [map |-> ScanPage(m, people, PagePeople(size, off)),
        offset |-> off + limit, rows |-> rows, done |-> FALSE,
        wait |-> IF (off + limit) % 1000 = 0 THEN 200 ELSE 0, threw |-> FALSE]

\* One pass of getAllUsersMap's loop body, given sb's outcome `res` for the
\* page at `off`: the map, the offset, whether the loop is left, the pause
\* taken, and whether the function threw.
getAllUsersMap_Pass(m, off, res, size, people) ==
  LET rows == IF res.kind = "return" /\ res.message = "json"
                THEN PageLen(size, off) ELSE 0
  IN
  IF res.kind = "throw"
    THEN \* catch (e) { break; }
         [map |-> m, offset |-> off, rows |-> 0, done |-> TRUE, wait |-> 0,
          threw |-> FALSE]
  ELSE IF rows = 0
    THEN \* if (!res.data || res.data.length === 0) break;
         [map |-> m, offset |-> off, rows |-> 0, done |-> TRUE, wait |-> 0,
          threw |-> FALSE]
  ELSE IF rows < limit
    THEN [map |-> ScanPage(m, people, PagePeople(size, off)), offset |-> off,
          rows |-> rows, done |-> TRUE, wait |-> 0, threw |-> FALSE]
  ELSE [map |-> ScanPage(m, people, PagePeople(size, off)),
        offset |-> off + limit, rows |-> rows, done |-> FALSE,
        wait |-> IF (off + limit) % 1000 = 0 THEN 200 ELSE 0, threw |-> FALSE]

\* One pass of getAllUsersMap's loop: the page fetch and what follows it.  A
\* throw of getAllUsersMap would reach the handler's catch.
getAllUsersMap_Page ==
  /\ op = "verify" /\ pc = "scan"
  /\ \E run \in PlatformRuns :
       LET res == sb(run)
           p   == getAllUsersMap_Pass(userMap, offset, res, dirSize, dirPeople)
       IN
       /\ calls' = Append(calls, Call("GET", "/users", offset, res.message, p.rows))
       /\ userMap' = p.map
       /\ offset' = p.offset
       /\ scanWaits' = IF p.wait > 0 THEN Append(scanWaits, p.wait) ELSE scanWaits
       /\ IF p.threw
            THEN pc' = "done" /\ response' = ErrorResponse(500, res.message)
            ELSE /\ pc' = IF p.done THEN "resolve" ELSE "scan"
                 /\ UNCHANGED response
  /\ UNCHANGED <<op, concurrent, listVars, sbVars, reqStoreIds, dirSize, dirPeople,
                 foundUsers, notFoundIds, createVars>>

\* Resolve without the else branch: an id that is not found is dropped.
RECURSIVE Resolve_DropNotFound(_, _, _)
Resolve_DropNotFound(m, ids, acc) ==
  IF ids = <<>> THEN acc
  ELSE LET key == String(Head(ids)) IN
       IF key \in DOMAIN m
         THEN Resolve_DropNotFound(m, Tail(ids),
                                   [acc EXCEPT !.found = Append(@, m[key])])
         ELSE Resolve_DropNotFound(m, Tail(ids), acc)

\* The for loop of the handler over ids[from..]: found and not found.
RECURSIVE Resolve(_, _, _)
Resolve(m, ids, acc) ==
  IF ids = <<>> THEN acc
  ELSE LET id == Head(ids)
           key == String(id)
       IN  IF key \in DOMAIN m
             THEN Resolve(m, Tail(ids),
                          [acc EXCEPT !.found = Append(@, m[key])])
             ELSE Resolve(m, Tail(ids),
                          [acc EXCEPT !.notFound = Append(@, id)])

\* The handler after getAllUsersMap returned: the loop and the answer.
VerifyUsers_Respond ==
  /\ op = "verify" /\ pc = "resolve"
  /\ LET r == Resolve(userMap, reqStoreIds.items,
                      [found |-> <<>>, notFound |-> <<>>]) IN
     /\ foundUsers' = r.found
     /\ notFoundIds' = r.notFound
     /\ response' = [status |-> 200, error |-> "",
                     body |-> [foundUsers |-> r.found,
                               notFoundIds |-> r.notFound]]
  /\ pc' = "done"
  /\ UNCHANGED <<op, concurrent, listVars, calls, sbVars, reqStoreIds, dirSize, dirPeople, offset,
                 scanWaits, userMap, createVars>>

----------------------------------------------------------------------------
(* POST /api/create: the inputs and the platform's installations.          *)

\* Store identifiers and the platform account ids of their accounts.  All
\* are integer-like, in increasing order.
Tokens     == <<"101", "102", "103", "104", "105", "106", "107", "108">>
AccountIds == <<"a1", "a2", "a3", "a4", "a5", "a6", "a7", "a8">>
\* A store that no request targets.
OtherToken == "999"

\* The position of a store identifier in numeric order.
TokenRank(t) == IF t = OtherToken THEN Len(Tokens) + 1
                ELSE CHOOSE k \in DOMAIN Tokens : Tokens[k] = t

\* The resolved account of store k, as verify returns it.
TargetUser(k) == [id |-> AccountIds[k], csvId |-> Tokens[k]]

\* req.body.verifiedUsers: absent, a JSON array, or a string that is no JSON.
VerifiedArray(n) == [kind |-> "array", items |-> [k \in 1..n |-> TargetUser(k)]]
VerifiedMissing  == [kind |-> "missing", items |-> <<>>]
VerifiedGarbage  == [kind |-> "garbage", items |-> <<>>]

\* The accessors taken from the store identifiers instead of the account ids.
userIds_CsvIds(vu) == [k \in DOMAIN vu.items |-> vu.items[k].csvId]
\* const userIds = verifiedUsers.map(u => u.id)
userIds(vu)  == [k \in DOMAIN vu.items |-> vu.items[k].id]
\* The fan-out key taken from the account ids instead of the store ids.
storeIds_AccountIds(vu) == [k \in DOMAIN vu.items |-> vu.items[k].id]
\* const storeIds = verifiedUsers.map(u => u.csvId)
storeIds(vu) == [k \in DOMAIN vu.items |-> vu.items[k].csvId]

\* A line of the task file after the split on ';' and the trims.
Line(t, d) == [title |-> t, date |-> d]
BlankLine  == Line("", "")
LineKinds  == {BlankLine, Line("", "2025-01-31"), Line("Task", ""),
               Line("Task", "2025-01-31"), Line("Task", "soon")}
NoFile == [present |-> FALSE, lines |-> <<>>]
File(lines) == [present |-> TRUE, lines |-> lines]

\* new Date(date).toISOString() throws a RangeError on a date it cannot
\* parse.
DateParses(d) == d = "2025-01-31"

\* parseTaskCSV's forEach: the tasks pushed, or "threw" set by a bad date.
RECURSIVE parseLines(_, _)
parseLines(lines, acc) ==
  IF lines = <<>> THEN [threw |-> FALSE, tasks |-> acc]
  ELSE LET l == Head(lines) IN
       IF l.title # ""
         THEN IF l.date # "" /\ ~DateParses(l.date)
                THEN [threw |-> TRUE, tasks |-> acc]
                ELSE parseLines(Tail(lines),
                       Append(acc, [title |-> l.title,
                                    dueDate |-> IF l.date = "" THEN "null"
                                                ELSE l.date]))
         ELSE parseLines(Tail(lines), acc)

\* parseTaskCSV keeping the rows pushed before the throw.
parseTaskCSV_KeepParsed(lines) == parseLines(lines, <<>>).tasks

\* parseTaskCSV: the titled lines, or [] when anything threw.
parseTaskCSV(lines) ==
  LET r == parseLines(lines, <<>>) IN
  IF r.threw THEN <<>> ELSE r.tasks

\* A title as the tokens the title pattern reads.
Lower(tok) == IF tok \in {"Store", "STORE", "store"} THEN "store" ELSE tok
IsWord(tok) == tok \in Range(Tokens) \cup {OtherToken}
RECURSIVE SkipSpaces(_)
SkipSpaces(t) == IF t # <<>> /\ Head(t) = " " THEN SkipSpaces(Tail(t)) ELSE t

\* title.match(/^Store\s*#?\s*(\w+)$/i): the captured token, or "" for no
\* match.
StoreTitleMatch(t) ==
  IF t = <<>> \/ Lower(Head(t)) # "store" THEN ""
  ELSE LET a == SkipSpaces(Tail(t))
           b == IF a # <<>> /\ Head(a) = "#" THEN Tail(a) ELSE a
           c == SkipSpaces(b)
       IN  IF Len(c) = 1 /\ IsWord(c[1]) THEN c[1] ELSE ""

\* An installation of the space.
Inst(pos, id, plugin, t) ==
  [pos |-> pos, id |-> id, pluginID |-> plugin, title |-> t]
StoreProject(k, pos) ==
  Inst(pos, AccountIds[k] \o "-project", "tasks", <<"Store", " ", Tokens[k]>>)

\* The installations a create request can meet, for n targeted stores: none;
\* one project per store on the first page; and a larger space, where a
\* second project of store 1, projects whose titles do not match, and the
\* project of an untargeted store sit among two pages of installations.
ProjWorlds(n) ==
  { [size |-> 0, projs |-> <<>>],
    [size |-> limit, projs |-> [k \in 1..n |-> StoreProject(k, k - 1)]],
    [size |-> limit + (limit \div 2),
     projs |-> [k \in 1..n |-> StoreProject(k, k - 1)]
               \o << Inst(limit - 1, "px", "tasks", <<"Store", " ", OtherToken>>),
                     Inst(limit, "py", "tasks", <<"store", "#", Tokens[1]>>),
                     Inst(limit + 1, "pz", "tasks",
                          <<"Store", " ", Tokens[1], " ", "annex">>) >>] }

\* The rows of the installations page at `off`.
ProjPage(size, ps, off) ==
  SelectSeq(ps, LAMBDA x : x.pos >= off /\ x.pos < off + PageLen(size, off))

\* The forEach keeping the first project found for a store.
RECURSIVE DiscoverPage_KeepFirst(_, _, _)
DiscoverPage_KeepFirst(m, rows, ids) ==
  IF rows = <<>> THEN m
  ELSE LET inst == Head(rows)
           tok  == StoreTitleMatch(inst.title)
       IN  DiscoverPage_KeepFirst(
             IF tok # "" /\ tok \in Range(ids) /\ tok \notin DOMAIN m
               THEN [k \in DOMAIN m \cup {tok} |->
                       IF k = tok THEN inst.id ELSE m[k]]
               ELSE m,
             Tail(rows), ids)

\* discoverProjectsByStoreIds' forEach over a page.
RECURSIVE DiscoverPage(_, _, _)
DiscoverPage(m, rows, ids) ==
  IF rows = <<>> THEN m
  ELSE LET inst == Head(rows)
           tok  == StoreTitleMatch(inst.title)
       IN  DiscoverPage(IF tok # "" /\ tok \in Range(ids)
                          THEN [k \in DOMAIN m \cup {tok} |->
                                  IF k = tok THEN inst.id ELSE m[k]]
                          ELSE m,
                        Tail(rows), ids)

\* One pass of discoverProjectsByStoreIds' loop, given sb's outcome for the
\* page at `off`; a throw of sb leaves the function.
discoverProjects_Pass(m, off, res, size, ps, ids) ==
  LET rows == IF res.kind = "return" /\ res.message = "json"
                THEN PageLen(size, off) ELSE 0
  IN
  IF res.kind = "throw"
    THEN [map |-> m, offset |-> off, rows |-> 0, done |-> TRUE, threw |-> TRUE]
  ELSE IF rows = 0
    THEN [map |-> m, offset |-> off, rows |-> 0, done |-> TRUE, threw |-> FALSE]
  ELSE IF rows < limit
    THEN [map |-> DiscoverPage(m, ProjPage(size, ps, off), ids), offset |-> off,
          rows |-> rows, done |-> TRUE, threw |-> FALSE]
  ELSE [map |-> DiscoverPage(m, ProjPage(size, ps, off), ids),
        offset |-> off + limit, rows |-> rows, done |-> FALSE, threw |-> FALSE]

EmptyProjectMap == [k \in {} |-> ""]

\* Object.values(projectMap): integer-like keys come in increasing order.
RECURSIVE ObjectValues(_, _)
ObjectValues(m, keys) ==
  IF keys = {} THEN <<>>
  ELSE LET k == CHOOSE x \in keys : \A y \in keys : TokenRank(x) <= TokenRank(y)
       IN  <<m[k]>> \o ObjectValues(m, keys \ {k})

instIds == ObjectValues(projectMap, DOMAIN projectMap)

\* const tasks = parseTaskCSV(taskFile.buffer)
tasks == parseTaskCSV(taskFile.lines)

----------------------------------------------------------------------------
(* Text.  A string the patterns read is the sequence of its pieces; a      *)
(* piece is a keyword, a number, a word, a mark, a tag or a blank, and the *)
(* pieces are such that no keyword runs over two of them.                  *)

\* NumTok[n + 1] is the decimal text of n.
NumTok == <<"0", "1", "2", "3", "4", "5", "6", "7", "8", "9">>

IsDigits(p) == p \in Range(NumTok)
\* parseInt(p, 10)
parseInt(p) == (CHOOSE n \in DOMAIN NumTok : NumTok[n] = p) - 1

\* The /i flag: a keyword in any case.
Fold(p) ==
  CASE p \in {"Category:", "category:", "CATEGORY:"} -> "category:"
    [] p \in {"Department:", "department:"} -> "department:"
    [] p \in {"Targeted Stores:", "targeted stores:"} -> "targeted stores:"
    [] p \in {"Targeted", "targeted"} -> "targeted"
    [] p \in {"User Count", "user count"} -> "user count"
    [] OTHER -> p

\* s.startsWith(prefix)
StartsWith(s, prefix) ==
  Len(s) >= Len(prefix) /\ SubSeq(s, 1, Len(prefix)) = prefix

\* s.trim()
RECURSIVE TrimEnd(_)
TrimEnd(t) ==
  IF t # <<>> /\ t[Len(t)] = " " THEN TrimEnd(SubSeq(t, 1, Len(t) - 1)) ELSE t
Trim(t) == TrimEnd(SkipSpaces(t))

\* The first place at or after `from` where t has the piece p; 0 for none.
IndexOf(t, p, from) ==
  LET at == {i \in from..Len(t) : t[i] = p}
  IN  IF at = {} THEN 0 ELSE CHOOSE i \in at : \A j \in at : i <= j

IsTag(p) == p \in {"<hr>", "<br>", "<h3>", "</h3>", "<ul>", "</ul>", "<li>",
                   "</li>", "<strong>", "</strong>", "<table>", "</table>",
                   "<p>", "</p>"}

\* cleanText's replacements of one piece: the entities, and a tag to a blank.
Unescape(p) ==
  IF p = "&nbsp;" THEN " " ELSE IF p = "&amp;" THEN "&"
  ELSE IF IsTag(p) THEN " " ELSE p

\* .replace(/\s+/g, ' ')
RECURSIVE Collapse(_)
Collapse(t) ==
  IF Len(t) < 2 THEN t
  ELSE IF t[1] = " " /\ t[2] = " " THEN Collapse(Tail(t))
  ELSE <<Head(t)>> \o Collapse(Tail(t))

cleanText(text) == Trim(Collapse([i \in DOMAIN text |-> Unescape(text[i])]))

----------------------------------------------------------------------------
(* POST /api/create: the handler.                                          *)

NoChannel == [made |-> FALSE, id |-> "", pluginID |-> "", externalID |-> <<>>,
              title |-> <<>>, accessorIDs |-> <<>>]
NoPost    == [made |-> FALSE, id |-> "", channel |-> "", title |-> <<>>,
              content |-> <<>>, teaser |-> <<>>, kicker |-> <<>>]

\* The platform's answers to a call that creates an object.
CreateRuns == PlatformRuns \ {<<204>>}

\* const metaExternalID = `adhoc-${now}`
metaExternalID(t) == <<"adhoc", "-", NumTok[t + 1]>>

\* The requests of a project's workflow.  The platform answers the creation
\* of a task list with the list's id.
NoRequest == [call |-> "", inst |-> "", body |-> <<>>]
ListId(inst) == inst \o "-list"
\* sb("POST", `/tasks/${instId}/lists`, { name: title })
ListRequest(inst) ==
  [call |-> "lists", inst |-> inst, body |-> [name |-> title]]
\* The task posted under the project's id instead of the list's.
TaskRequest_UnderProject(inst, listId, t) ==
  [call |-> "task", inst |-> inst,
   body |-> IF rev = "current"
              THEN [taskListId |-> inst, title |-> t.title,
                    dueDate |-> t.dueDate, status |-> "OPEN"]
              ELSE [taskListId |-> inst, title |-> t.title,
                    dueDate |-> t.dueDate, status |-> "OPEN",
                    assigneeIds |-> <<>>]]
\* sb("POST", `/tasks/${instId}/task`, { taskListId: listRes.id, ... }); the
\* chunked revision adds `assigneeIds: []`.
TaskRequest(inst, listId, t) ==
  [call |-> "task", inst |-> inst,
   body |-> IF rev = "current"
              THEN [taskListId |-> listId, title |-> t.title,
                    dueDate |-> t.dueDate, status |-> "OPEN"]
              ELSE [taskListId |-> listId, title |-> t.title,
                    dueDate |-> t.dueDate, status |-> "OPEN",
                    assigneeIds |-> <<>>]]

\* A workflow not started, and one whose n-th call, `req`, is in flight.
Idle(n)   == [st |-> "idle", n |-> n, req |-> NoRequest]
Flight(n, req) == [st |-> "flight", n |-> n, req |-> req]

verifyRest == <<reqStoreIds, dirSize, dirPeople, scanWaits, userMap,
                foundUsers, notFoundIds>>
createInputs == <<rev, verifiedUsers, title, department, taskFile,
                  profileFile, clock, projSize, projs>>

\* req.body.department is a text, <<>> when the field is absent or empty.
\* if (!department || department === 'undefined' || department.trim() === '')
\*   department = "Uncategorized"
departmentOf(d) ==
  IF d = <<>> \/ d = <<"undefined">> \/ Trim(d) = <<>>
    THEN <<"Uncategorized">> ELSE d

\* The title as a text.
TitleText(t) == IF t = "" THEN <<>> ELSE <<t>>

\* taskListHTML: the action items, when the task file gave any.
RECURSIVE TaskItems(_)
TaskItems(ts) ==
  IF ts = <<>> THEN <<>>
  ELSE <<"<li>", "<strong>", Head(ts).title, "</strong>", "<br>">>
         \o (IF Head(ts).dueDate # "null" THEN <<" ", "(Due)">> ELSE <<>>)
         \o <<"</li>">> \o TaskItems(Tail(ts))
taskListHTML(file) ==
  IF file.present /\ Len(parseTaskCSV(file.lines)) > 0
    THEN <<"<h3>", "Action Items", "</h3>", "<ul>">>
           \o TaskItems(parseTaskCSV(file.lines)) \o <<"</ul>">>
    ELSE <<>>

\* profileMergeHTML: the merge guide of a profile file of two rows or more
\* (the rows of its table are left out).
profileMergeHTML(present) ==
  IF present
    THEN <<"<h3>", "Field Merge Guide (First Row)", "</h3>", "<table>",
           "</table>", "<br>">>
    ELSE <<>>

\* const contentHTML = `${title}<hr>${profileMergeHTML}${taskListHTML}`
contentHTML(t, file, profile) ==
  TitleText(t) \o <<"<hr>">> \o profileMergeHTML(profile) \o taskListHTML(file)

\* const contentTeaser =
\*   `Category: ${department}; Targeted Stores: ${userIds.length}`
contentTeaser(d, n) ==
  <<"Category:", " ">> \o d \o <<";", " ", "Targeted Stores:", " ", NumTok[n + 1]>>

\* The validation testing only for an absent verifiedUsers.
NoVerifiedUsers_MissingOnly(vu) == vu.kind = "missing"

\* if (!verifiedUsers || verifiedUsers.length === 0)
NoVerifiedUsers(vu) ==
  vu.kind = "missing" \/ (vu.kind = "array" /\ Len(vu.items) = 0)

\* The handler up to its first await: the defaults, the validation, and the
\* channel creation is issued.
Create_Begin ==
  /\ op = "create" /\ pc = "start"
  /\ \E t \in {clock} :
       IF NoVerifiedUsers(verifiedUsers)
         THEN /\ response' = ErrorResponse(400, "No verified users provided.")
              /\ pc' = "done"
              /\ UNCHANGED now
       ELSE IF verifiedUsers.kind = "garbage"
         THEN \* verifiedUsers.map is not a function: the handler's catch
              /\ response' = ErrorResponse(500, "TypeError")
              /\ pc' = "done"
              /\ UNCHANGED now
       ELSE /\ now' = t
            /\ pc' = "channel"
            /\ UNCHANGED response
  /\ UNCHANGED <<op, concurrent, listVars, calls, sbVars, verifyVars, createInputs, projectMap, wf,
                 channel, post, taskCount, importCount>>

\* The answer of the handler's last statement.
SuccessResponse(tc, ic) ==
  [status |-> 200, error |-> "",
   body |-> [success |-> TRUE, channelId |-> channel.id, postId |-> "post-1",
             taskCount |-> tc, importCount |-> ic]]

\* An awaited sb call that throws inside the handler's try.
AwaitThrew_Swallowed(res) == FALSE

\* `await sb(...)` inside `try { ... } catch (err) { res.status(500)... }`:
\* a throw of the awaited call leaves the try block for the catch.
AwaitThrew(res) == res.kind = "throw"

\* The channel creation returned or threw; on return the post creation is
\* issued.
Create_Channel ==
  /\ op = "create" /\ pc = "channel"
  /\ \E run \in CreateRuns :
       LET res == sb(run) IN
       /\ calls' = Append(calls, Call("POST", "/installations", 0, res.message, 0))
       /\ IF AwaitThrew(res)
            THEN /\ response' = ErrorResponse(500, res.message)
                 /\ pc' = "done"
                 /\ UNCHANGED channel
            ELSE /\ channel' = [made |-> TRUE, id |-> "channel-1",
                                pluginID |-> "news",
                                externalID |-> metaExternalID(now),
                                title |-> TitleText(title),
                                accessorIDs |-> userIds(verifiedUsers)]
                 /\ pc' = "post"
                 /\ UNCHANGED response
  /\ UNCHANGED <<op, concurrent, listVars, sbVars, verifyVars, createInputs, now, projectMap, wf,
                 post, taskCount, importCount>>

\* What follows the task fan-out: the profile import is issued, or the
\* handler answers.
AfterTasks(tc) ==
  /\ taskCount' = tc
  /\ IF profileFile
       THEN pc' = "import" /\ UNCHANGED response
       ELSE pc' = "done" /\ response' = SuccessResponse(tc, 0)

\* The post creation returned or threw; on return the project discovery is
\* started when a task file came with the request.
Create_Post ==
  /\ op = "create" /\ pc = "post"
  /\ \E run \in CreateRuns :
       LET res == sb(run) IN
       /\ calls' = Append(calls, Call("POST", "/posts", 0, res.message, 0))
       /\ IF AwaitThrew(res)
            THEN /\ response' = ErrorResponse(500, res.message)
                 /\ pc' = "done"
                 /\ UNCHANGED <<post, taskCount>>
            ELSE /\ post' = [made |-> TRUE, id |-> "post-1",
                             channel |-> channel.id,
                             title |-> TitleText(title),
                             content |-> contentHTML(title, taskFile,
                                                     profileFile),
                             teaser |-> contentTeaser(
                                          departmentOf(department),
                                          Len(userIds(verifiedUsers))),
                             kicker |-> departmentOf(department)]
                 /\ IF taskFile.present /\ (rev = "current" \/ Len(tasks) > 0)
                      THEN pc' = "discover" /\ UNCHANGED <<response, taskCount>>
                      ELSE AfterTasks(0)
  /\ UNCHANGED <<op, concurrent, listVars, sbVars, verifyVars, createInputs, now, projectMap, wf,
                 channel, importCount>>

\* The workflows as the fan-out starts them for the project ids `ids`: the
\* current revision runs them one after another, the first one now.
StartSequential(ids) ==
  [i \in DOMAIN ids |-> IF i = 1 THEN Flight(0, ListRequest(ids[i])) ELSE Idle(0)]

\* `for (let i=0; i<installationIds.length; i+=5) chunkedInsts.push(...)`
ChunkSize == 5
\* Chunks one project too long.
ChunkOf_TooLong(i) == (i - 1) \div (ChunkSize + 1)

\* The chunk, from 0, of the project at position i of installationIds.
ChunkOf(i) == (i - 1) \div ChunkSize

\* The chunked revision starts every workflow of the first chunk.
StartChunked(ids) ==
  [i \in DOMAIN ids |-> IF ChunkOf(i) = 0 THEN Flight(0, ListRequest(ids[i]))
                                          ELSE Idle(0)]

\* One pass of discoverProjectsByStoreIds' loop; when the scan is over the
\* fan-out starts.
discoverProjects_Page ==
  /\ op = "create" /\ pc = "discover"
  /\ \E run \in PlatformRuns :
       LET res == sb(run)
           p   == discoverProjects_Pass(projectMap, offset, res, projSize,
                                        projs, storeIds(verifiedUsers))
           ids == ObjectValues(p.map, DOMAIN p.map)
       IN
       /\ calls' = Append(calls, Call("GET", "/installations", offset,
                                      res.message, p.rows))
       /\ projectMap' = p.map
       /\ offset' = p.offset
       /\ IF p.threw
            THEN /\ response' = ErrorResponse(500, res.message)
                 /\ pc' = "done"
                 /\ UNCHANGED <<wf, taskCount>>
          ELSE IF ~p.done
            THEN /\ pc' = "discover"
                 /\ UNCHANGED <<response, wf, taskCount>>
          ELSE IF ids = <<>>
            THEN /\ AfterTasks(0)
                 /\ UNCHANGED wf
          ELSE /\ wf' = IF rev = "current" THEN StartSequential(ids)
                                           ELSE StartChunked(ids)
               /\ pc' = "fanout"
               /\ UNCHANGED <<response, taskCount>>
  /\ UNCHANGED <<op, concurrent, listVars, sbVars, verifyRest, createInputs, now, channel, post,
                 importCount>>

\* A workflow after its call in flight returned (ok) or threw: the next
\* call of the project is issued, or the workflow is settled.
WorkflowStep(w, ok) ==
  IF ~ok THEN [w EXCEPT !.st = "failed"]
  ELSE IF w.n + 1 = 1 + Len(tasks) THEN [w EXCEPT !.st = "ok", !.n = w.n + 1]
  ELSE Flight(w.n + 1,
              TaskRequest(w.req.inst,
                          IF w.n = 0 THEN ListId(w.req.inst)
                                     ELSE w.req.body.taskListId,
                          tasks[w.n + 1]))

Settled(w) == w.st \in {"ok", "failed"}

\* The count adding up the tasks of the workflows that did not throw, as
\* `taskCount += tasks.length` at the end of the try does.
taskCountOf_Succeeded(ws) ==
  Len(tasks) * Cardinality({i \in DOMAIN ws : ws[i].st = "ok"})

\* taskCount = tasks.length * instIds.length, after the loop over the
\* projects, whose workflows ended as `ws`.
taskCountOf(ws) == Len(tasks) * Len(instIds)

\* SequentialNext with the try around the whole loop: the first workflow
\* that throws ends the loop.
SequentialNext_AbortOnError(ws, i, w) ==
  IF w.st = "flight" \/ w.st = "failed" \/ i = Len(ws)
    THEN [ws EXCEPT ![i] = w]
    ELSE [ws EXCEPT ![i] = w, ![i + 1] = Flight(0, ListRequest(instIds[i + 1]))]

\* The workflows after workflow i took the step to w: the try/catch is
\* inside the for loop, so a settled workflow, failed or not, is followed by
\* the next project's.
SequentialNext(ws, i, w) ==
  IF ~Settled(w) \/ i = Len(ws)
    THEN [ws EXCEPT ![i] = w]
    ELSE [ws EXCEPT ![i] = w, ![i + 1] = Flight(0, ListRequest(instIds[i + 1]))]

\* The current revision's loop: the call in flight is answered; a settled
\* workflow starts the next project's, and the last one ends the fan-out.
Create_TaskCall ==
  /\ op = "create" /\ pc = "fanout" /\ rev = "current"
  /\ \E i \in DOMAIN wf : \E run \in CreateRuns :
       LET res == sb(run)
           w   == WorkflowStep(wf[i], res.kind = "return")
       IN
       /\ wf[i].st = "flight"
       /\ wf' = SequentialNext(wf, i, w)
       /\ IF \E j \in DOMAIN wf : SequentialNext(wf, i, w)[j].st = "flight"
            THEN UNCHANGED <<pc, response, taskCount>>
            ELSE AfterTasks(taskCountOf(SequentialNext(wf, i, w)))
  /\ UNCHANGED <<op, concurrent, listVars, calls, sbVars, verifyVars, createInputs, now,
                 projectMap, channel, post, importCount>>

\* The chunked revision: a call in flight of any workflow of the chunk is
\* answered; when the chunk's last workflow settles, Promise.all resolves
\* and the next chunk's workflows all start, or the fan-out ends.
StartChunk(ws, c) ==
  [i \in DOMAIN ws |-> IF ChunkOf(i) = c THEN Flight(0, ListRequest(instIds[i]))
                                         ELSE ws[i]]

Chunk_TaskCall ==
  /\ op = "create" /\ pc = "fanout" /\ rev = "chunked"
  /\ \E i \in DOMAIN wf : \E run \in CreateRuns :
       LET res  == sb(run)
           ws   == [wf EXCEPT ![i] = WorkflowStep(wf[i], res.kind = "return")]
           c    == ChunkOf(i)
           rest == \E j \in DOMAIN ws : ChunkOf(j) = c /\ ~Settled(ws[j])
       IN
       /\ wf[i].st = "flight"
       /\ IF rest
            THEN /\ wf' = ws
                 /\ UNCHANGED <<pc, response, taskCount>>
          ELSE IF \E j \in DOMAIN ws : ws[j].st = "idle"
            THEN /\ wf' = StartChunk(ws, c + 1)
                 /\ UNCHANGED <<pc, response, taskCount>>
          ELSE /\ wf' = ws
               /\ AfterTasks(taskCountOf(ws))
  /\ UNCHANGED <<op, concurrent, listVars, calls, sbVars, verifyVars, createInputs, now, projectMap,
                 channel, post, importCount>>

\* The profile import's fetch returned (ok or not) or threw; the handler
\* answers.
Create_Import ==
  /\ op = "create" /\ pc = "import"
  /\ \E out \in {"ok", "not ok", "threw"} :
       /\ calls' = Append(calls, Call("POST", "/users/imports", 0, out, 0))
       /\ importCount' = IF out = "ok" THEN 1 ELSE 0
       /\ response' = SuccessResponse(taskCount, IF out = "ok" THEN 1 ELSE 0)
  /\ pc' = "done"
  /\ UNCHANGED <<op, concurrent, listVars, sbVars, verifyVars, createInputs, now, projectMap, wf,
                 channel, post, taskCount>>

----------------------------------------------------------------------------
(* GET /api/items: recognition and decoding.                               *)

\* A date as the platform gives it, the ISO text of the instant ms; or none.
Iso(ms) == [kind |-> "iso", ms |-> ms]
NoDate  == [kind |-> "none", ms |-> 0]
\* new Date(text), as the instant
DateOf(d) == d.ms

\* A post as /channels/:id/posts returns it, with contents.en_US's fields.
PostOf(teaser, kicker, content, state) ==
  [teaser |-> teaser, kicker |-> kicker, content |-> content,
   published |-> state = "published", planned |-> state = "planned"]

\* A news or other installation as the space's listing returns it; `posts`
\* is what its posts endpoint holds.
SpaceInst(pos, id, plugin, extID, t, accessors, createdAt, created, posts) ==
  [pos |-> pos, id |-> id, pluginID |-> plugin, externalID |-> extID,
   title |-> t, accessorIDs |-> accessors, createdAt |-> createdAt,
   created |-> created, posts |-> posts]

NoMatch == [ok |-> FALSE, count |-> 0, department |-> <<>>, title |-> <<>>]

\* title.match(/^\[external\][^:]+:(\d+):([^:]*)::(.*?) - (.+)$/)
ExternalTitleMatch(t) ==
  LET c1 == IndexOf(t, ":", 2) IN
  IF ~StartsWith(t, <<"[external]">>) \/ c1 < 3 \/ Len(t) < c1 + 2
    THEN NoMatch
  ELSE IF ~IsDigits(t[c1 + 1]) \/ t[c1 + 2] # ":"
    THEN NoMatch
  ELSE LET c3 == IndexOf(t, ":", c1 + 3) IN
       IF c3 = 0 \/ Len(t) < c3 + 1 \/ t[c3 + 1] # ":"
         THEN NoMatch
       ELSE LET r == SubSeq(t, c3 + 2, Len(t))
                d == IndexOf(r, " - ", 1)
            IN  IF d = 0 \/ d = Len(r)
                  THEN NoMatch
                  ELSE [ok |-> TRUE, count |-> parseInt(t[c1 + 1]),
                        department |-> SubSeq(r, 1, d - 1),
                        title |-> SubSeq(r, d + 1, Len(r))]

NoItem == [some |-> FALSE]
Item(id, t, dept, count, date) ==
  [some |-> TRUE, channelId |-> id, title |-> t, department |-> dept,
   userCount |-> count, createdAt |-> date, status |-> "Draft"]

\* The recognition without the test of the plugin.
Recognize_AnyPlugin(inst, today) ==
  LET t       == IF inst.title = <<>> THEN <<"Untitled">> ELSE inst.title
      dateStr == IF inst.createdAt.kind # "none" THEN inst.createdAt
                 ELSE IF inst.created.kind # "none" THEN inst.created
                 ELSE Iso(today)
      m       == ExternalTitleMatch(t)
  IN
  IF StartsWith(inst.externalID, <<"adhoc">>)
    THEN Item(inst.id, t, <<"Uncategorized">>, Len(inst.accessorIDs), dateStr)
  ELSE IF StartsWith(t, <<"[external]">>) /\ m.ok
    THEN Item(inst.id, m.title, m.department, m.count, dateStr)
  ELSE NoItem

\* The loop body up to `if (item)`: the item made of an installation, or
\* none.  `today` is new Date() as the handler reads it.
Recognize(inst, today) ==
  LET t       == IF inst.title = <<>> THEN <<"Untitled">> ELSE inst.title
      dateStr == IF inst.createdAt.kind # "none" THEN inst.createdAt
                 ELSE IF inst.created.kind # "none" THEN inst.created
                 ELSE Iso(today)
      m       == ExternalTitleMatch(t)
  IN
  IF inst.pluginID # "news" THEN NoItem
  ELSE IF StartsWith(inst.externalID, <<"adhoc">>)
    THEN Item(inst.id, t, <<"Uncategorized">>, Len(inst.accessorIDs), dateStr)
  ELSE IF StartsWith(t, <<"[external]">>) /\ m.ok
    THEN Item(inst.id, m.title, m.department, m.count, dateStr)
  ELSE NoItem

NoCapture == [found |-> FALSE, text |-> <<>>]

\* The longest start of t without a ';'.
RECURSIVE UpToSemicolon(_)
UpToSemicolon(t) ==
  IF t = <<>> \/ Head(t) = ";" THEN <<>>
  ELSE <<Head(t)>> \o UpToSemicolon(Tail(t))

\* teaserText.match(/(?:Category|Department):\s*([^;]+)/i): the first
\* keyword after which the capture is not empty; the blanks \s* took are
\* given back to the capture when nothing else can fill it.
RECURSIVE TeaserDepartment(_)
TeaserDepartment(t) ==
  IF t = <<>> THEN NoCapture
  ELSE IF Fold(Head(t)) \in {"category:", "department:"}
    THEN LET a   == SkipSpaces(Tail(t))
             run == UpToSemicolon(a)
         IN  IF run # <<>> THEN [found |-> TRUE, text |-> run]
             ELSE IF Len(a) < Len(Tail(t)) THEN [found |-> TRUE, text |-> <<" ">>]
             ELSE TeaserDepartment(Tail(t))
  ELSE TeaserDepartment(Tail(t))

\* The lookahead (?=\s*(?:Targeted|User Count|$))
AtMarker(t) ==
  LET a == SkipSpaces(t) IN
  a = <<>> \/ Fold(Head(a)) \in {"targeted", "targeted stores:", "user count"}

\* The lazy capture: the shortest start of t that a marker follows.
RECURSIVE UpToMarker(_)
UpToMarker(t) ==
  IF AtMarker(t) THEN <<>> ELSE <<Head(t)>> \o UpToMarker(Tail(t))

\* plainBodyText.match(/(?:Category|Department):\s*([^\n\r]*?)(?=...)/i)
RECURSIVE BodyDepartment(_)
BodyDepartment(t) ==
  IF t = <<>> THEN NoCapture
  ELSE IF Fold(Head(t)) \in {"category:", "department:"}
    THEN [found |-> TRUE, text |-> UpToMarker(SkipSpaces(Tail(t)))]
  ELSE BodyDepartment(Tail(t))

NoCount == [found |-> FALSE, n |-> 0]

\* text.match(/Targeted Stores:\s*(\d+)/i)
RECURSIVE TargetedStores(_)
TargetedStores(t) ==
  IF t = <<>> THEN NoCount
  ELSE IF Fold(Head(t)) = "targeted stores:"
         /\ SkipSpaces(Tail(t)) # <<>> /\ IsDigits(Head(SkipSpaces(Tail(t))))
    THEN [found |-> TRUE, n |-> parseInt(Head(SkipSpaces(Tail(t))))]
  ELSE TargetedStores(Tail(t))

\* The decoding with the body read before the teaser and the kicker.
Hydrate_BodyFirst(item, p) ==
  LET plainBodyText == cleanText(p.content)
      td == TeaserDepartment(p.teaser)
      bd == BodyDepartment(plainBodyText)
      tc == TargetedStores(p.teaser)
      bc == TargetedStores(plainBodyText)
  IN  [item EXCEPT
         !.department = IF bd.found /\ bd.text # <<>> THEN Trim(bd.text)
                        ELSE IF td.found THEN Trim(td.text)
                        ELSE IF p.kicker # <<>> THEN Trim(p.kicker)
                        ELSE @,
         !.userCount  = IF bc.found THEN bc.n
                        ELSE IF tc.found THEN tc.n
                        ELSE @,
         !.status     = IF p.published THEN "Published"
                        ELSE IF p.planned THEN "Scheduled"
                        ELSE @]

\* The decoding with the status tests exchanged: planned before published.
Hydrate_PlannedFirst(item, p) ==
  LET plainBodyText == cleanText(p.content)
      td == TeaserDepartment(p.teaser)
      bd == BodyDepartment(plainBodyText)
      tc == TargetedStores(p.teaser)
      bc == TargetedStores(plainBodyText)
  IN  [item EXCEPT
         !.department = IF td.found THEN Trim(td.text)
                        ELSE IF p.kicker # <<>> THEN Trim(p.kicker)
                        ELSE IF bd.found /\ bd.text # <<>> THEN Trim(bd.text)
                        ELSE @,
         !.userCount  = IF tc.found THEN tc.n
                        ELSE IF bc.found THEN bc.n
                        ELSE @,
         !.status     = IF p.planned THEN "Scheduled"
                        ELSE IF p.published THEN "Published"
                        ELSE @]

\* Hydrate taking the kicker, empty or not, when the teaser gives nothing.
Hydrate_KickerUntested(item, p) ==
  LET td == TeaserDepartment(p.teaser)
      tc == TargetedStores(p.teaser)
      bc == TargetedStores(cleanText(p.content))
  IN  [item EXCEPT
         !.department = IF td.found THEN Trim(td.text) ELSE Trim(p.kicker),
         !.userCount  = IF tc.found THEN tc.n
                        ELSE IF bc.found THEN bc.n
                        ELSE @,
         !.status     = IF p.published THEN "Published"
                        ELSE IF p.planned THEN "Scheduled"
                        ELSE @]

\* The decoding of the item's first post p: the department by teaser, then
\* kicker, then body; the count by teaser, then body; the status.
Hydrate(item, p) ==
  LET plainBodyText == cleanText(p.content)
      td == TeaserDepartment(p.teaser)
      bd == BodyDepartment(plainBodyText)
      tc == TargetedStores(p.teaser)
      bc == TargetedStores(plainBodyText)
  IN  [item EXCEPT
         !.department = IF td.found THEN Trim(td.text)
                        ELSE IF p.kicker # <<>> THEN Trim(p.kicker)
                        ELSE IF bd.found /\ bd.text # <<>> THEN Trim(bd.text)
                        ELSE @,
         !.userCount  = IF tc.found THEN tc.n
                        ELSE IF bc.found THEN bc.n
                        ELSE @,
         !.status     = IF p.published THEN "Published"
                        ELSE IF p.planned THEN "Scheduled"
                        ELSE @]

\* The sort with the comparator's operands exchanged: the oldest first.
RECURSIVE InsertItem_OldestFirst(_, _)
InsertItem_OldestFirst(sorted, x) ==
  IF sorted = <<>> THEN <<x>>
  ELSE IF DateOf(Head(sorted).createdAt) <= DateOf(x.createdAt)
    THEN <<Head(sorted)>> \o InsertItem_OldestFirst(Tail(sorted), x)
  ELSE <<x>> \o sorted

\* items.sort((a,b) => new Date(b.createdAt) - new Date(a.createdAt)): the
\* newest first, items of one instant in the order they had.
RECURSIVE InsertItem(_, _)
InsertItem(sorted, x) ==
  IF sorted = <<>> THEN <<x>>
  ELSE IF DateOf(Head(sorted).createdAt) >= DateOf(x.createdAt)
    THEN <<Head(sorted)>> \o InsertItem(Tail(sorted), x)
  ELSE <<x>> \o sorted
RECURSIVE SortItems(_, _)
SortItems(its, sorted) ==
  IF its = <<>> THEN sorted
  ELSE SortItems(Tail(its), InsertItem(sorted, Head(its)))

\* The catch answering as the other handlers do.
ListFailed_Status500(message) == ErrorResponse(500, message)

\* catch (err) { console.error("List Error:", err); res.json({ items: [] }) }
ListFailed(message) == [status |-> 200, error |-> "", body |-> [items |-> <<>>]]

\* The push inside the try, after the fetch: a failed fetch loses the item.
PushItem_InsideTry(its, item, res) ==
  IF res.kind = "throw" THEN its ELSE Append(its, item)

\* items.push(item), after the try/catch around the post's fetch, whose
\* outcome was res.
PushItem(its, item, res) == Append(its, item)

\* res.json({ items })
ItemsResponse(its) == [status |-> 200, error |-> "", body |-> [items |-> its]]

\* A call of the listing with another method than GET.
ListCall_Post(path, at, out, rows) == Call("POST", path, at, out, rows)

\* The calls of the listing: sb("GET", ...) for a page of the space and for
\* the first post of a channel.
ListCall(path, at, out, rows) == Call("GET", path, at, out, rows)

\* The installations of the page at `off` that are not filler; filler
\* installations are of other plugins.
SpacePage(off) ==
  SelectSeq(projs, LAMBDA x : x.pos >= off /\ x.pos < off + PageLen(projSize, off))

\* The place in `rows`, at or after `from`, of the next installation the
\* loop makes an item of; 0 when the page has none left.
NextItemRow(rows, from) ==
  LET at == {i \in from..Len(rows) : Recognize(rows[i], clock).some}
  IN  IF at = {} THEN 0 ELSE CHOOSE i \in at : \A j \in at : i <= j

\* The handler from row `from` of the page of n rows on, with `its` the
\* items so far: the post of the next item is fetched, or the page is over
\* and the next page is fetched, or the loop is over and the handler
\* answers.
ListFrom(from, n, its) ==
  LET rows == SpacePage(offset)
      i    == NextItemRow(rows, from)
  IN
  /\ items' = its
  /\ IF i > 0
       THEN /\ pending' = Recognize(rows[i], clock)
            /\ rowAt' = i
            /\ pc' = "list-post"
            /\ UNCHANGED <<offset, response>>
     ELSE IF n < limit
       THEN /\ pc' = "done"
            /\ response' = ItemsResponse(SortItems(its, <<>>))
            /\ pending' = NoItem /\ rowAt' = 0
            /\ UNCHANGED offset
     ELSE /\ pc' = "list-page"
          /\ offset' = offset + limit
          /\ pending' = NoItem /\ rowAt' = 0
          /\ UNCHANGED response

\* GET /api/items arrives after a create that answered success: the space
\* now holds the channel with its post, stamped by the platform on its own
\* clock and in the state the post is in by then.
List_Begin ==
  /\ op = "create" /\ pc = "done" /\ response.status = 200
  /\ \E stamp \in {now, now + 1}, state \in {"draft", "planned", "published"} :
       projs' = Append(projs,
                  SpaceInst(projSize, channel.id, channel.pluginID,
                            channel.externalID, channel.title,
                            channel.accessorIDs, Iso(stamp), NoDate,
                            <<PostOf(post.teaser, post.kicker, post.content,
                                     state)>>))
  /\ projSize' = projSize + 1
  /\ op' = "list" /\ pc' = "list-page"
  /\ offset' = 0
  /\ response' = NoResponse
  /\ calls' = <<>>
  /\ clock' = clock + 2
  /\ items' = <<>> /\ pending' = NoItem /\ rowAt' = 0
  /\ UNCHANGED <<concurrent, sbVars, reqStoreIds, dirSize, dirPeople, scanWaits, userMap,
                 foundUsers, notFoundIds, rev, verifiedUsers, title,
                 department, taskFile, profileFile, now, projectMap, wf,
                 channel, post, taskCount, importCount>>

listRest == <<op, concurrent, sbVars, reqStoreIds, dirSize, dirPeople, scanWaits, userMap,
              foundUsers, notFoundIds, createVars>>

\* The page of installations at `offset` returned or threw.
List_Page ==
  /\ op = "list" /\ pc = "list-page"
  /\ \E run \in PlatformRuns :
       LET res == sb(run)
           n   == IF res.kind = "return" /\ res.message = "json"
                    THEN PageLen(projSize, offset) ELSE 0
       IN
       /\ calls' = Append(calls, ListCall("/installations", offset,
                                      res.message, n))
       /\ IF AwaitThrew(res)
            THEN \* catch (err) { res.json({ items: [] }) }
                 /\ response' = ListFailed(res.message)
                 /\ pc' = "done"
                 /\ UNCHANGED <<offset, listVars>>
          ELSE IF n = 0
            THEN /\ response' = ItemsResponse(SortItems(items, <<>>))
                 /\ pc' = "done"
                 /\ UNCHANGED <<offset, listVars>>
          ELSE ListFrom(1, n, items)
  /\ UNCHANGED listRest

\* `/channels/${item.channelId}/posts?limit=1`
PostsPath(id) == "/channels/" \o id \o "/posts"

\* The fetch of the pending item's first post returned or threw; a throw is
\* caught and the item is pushed as it is.
List_Post ==
  /\ op = "list" /\ pc = "list-post"
  /\ \E run \in PlatformRuns :
       LET res   == sb(run)
           rows  == SpacePage(offset)
           posts == IF res.kind = "return" /\ res.message = "json"
                      THEN rows[rowAt].posts ELSE <<>>
           item  == IF posts # <<>> THEN Hydrate(pending, posts[1])
                                    ELSE pending
       IN
       /\ calls' = Append(calls, ListCall(PostsPath(pending.channelId), 0,
                                      res.message, Len(posts)))
       /\ ListFrom(rowAt + 1, PageLen(projSize, offset),
                   PushItem(items, item, res))
  /\ UNCHANGED listRest

----------------------------------------------------------------------------
(* The specifications: one request of one kind each.                       *)

\* No second request.
NoConcurrent == [pc |-> "none", now |-> 0, channel |-> NoChannel, status |-> 0]
ConcurrentIdle == concurrent = NoConcurrent

ListIdle ==
  /\ items = <<>>
  /\ pending = NoItem
  /\ rowAt = 0

CreateIdle ==
  /\ rev = "current"
  /\ verifiedUsers = VerifiedMissing
  /\ title = ""
  /\ department = <<>>
  /\ taskFile = NoFile
  /\ profileFile = FALSE
  /\ clock = 0
  /\ now = 0
  /\ projSize = 0
  /\ projs = <<>>
  /\ projectMap = EmptyProjectMap
  /\ wf = <<>>
  /\ channel = NoChannel
  /\ post = NoPost
  /\ taskCount = 0
  /\ importCount = 0

InitSb ==
  /\ op = "sb"
  /\ pc = "sb"
  /\ response = NoResponse
  /\ calls = <<>>
  /\ ListIdle
  /\ ConcurrentIdle
  /\ VerifyIdle
  /\ CreateIdle
  /\ sbMethod \in Methods
  /\ sbHasBody \in BOOLEAN
  /\ retries = InitialRetries
  /\ sbStatuses = <<>>
  /\ sbWaits = <<>>
  /\ sbOutcome = Pending

NextSb == sbAttempt

SpecSb == InitSb /\ [][NextSb]_vars

InitVerify ==
  /\ op = "verify"
  /\ pc = "start"
  /\ response = NoResponse
  /\ calls = <<>>
  /\ ListIdle
  /\ ConcurrentIdle
  /\ SbIdle
  /\ CreateIdle
  /\ reqStoreIds \in Requests
  /\ dirSize \in DirSizes
  /\ dirPeople \in [People -> ProfileVals]
  /\ \A i \in People : PersonPos[i] >= dirSize => dirPeople[i] = RawNone
  /\ offset = 0
  /\ scanWaits = <<>>
  /\ userMap = EmptyMap
  /\ foundUsers = <<>>
  /\ notFoundIds = <<>>

NextVerify == VerifyUsers_Begin \/ getAllUsersMap_Page \/ VerifyUsers_Respond

SpecVerify == InitVerify /\ [][NextVerify]_vars

\* req.body.storeIds of a create request naming store 100, whose account
\* is in the directory.
StoreIdsGiven ==
  /\ reqStoreIds = [kind |-> "array", items |-> <<Str("100")>>]
  /\ dirSize = limit \div 2
  /\ dirPeople = [i \in People |-> IF i = 1 THEN Str("100") ELSE RawNone]
  /\ offset = 0
  /\ scanWaits = <<>>
  /\ userMap = EmptyMap
  /\ foundUsers = <<>>
  /\ notFoundIds = <<>>

\* The current revision of the handler (src/server.js).
InitCreate ==
  /\ op = "create" /\ pc = "start"
  /\ response = NoResponse
  /\ calls = <<>>
  /\ ListIdle
  /\ ConcurrentIdle
  /\ SbIdle
  /\ rev = "current"
  /\ verifiedUsers \in {VerifiedMissing, VerifiedGarbage}
                        \cup {VerifiedArray(n) : n \in 0..MaxTargets}
  /\ \/ VerifyIdle
     \/ NoVerifiedUsers(verifiedUsers) /\ StoreIdsGiven
  /\ title \in {"", "Holiday Hours"}
  /\ department = <<"Operations">>
  /\ taskFile \in {NoFile} \cup {File(l) : l \in SeqUpTo(LineKinds, MaxRows)}
  /\ profileFile \in BOOLEAN
  /\ clock = 1
  /\ now = 0
  /\ \E w \in ProjWorlds(Len(verifiedUsers.items)) :
       projSize = w.size /\ projs = w.projs
  /\ projectMap = EmptyProjectMap
  /\ wf = <<>>
  /\ channel = NoChannel
  /\ post = NoPost
  /\ taskCount = 0
  /\ importCount = 0

NextCreate ==
  \/ Create_Begin
  \/ Create_Channel
  \/ Create_Post
  \/ discoverProjects_Page
  \/ Create_TaskCall
  \/ Create_Import

SpecCreate == InitCreate /\ [][NextCreate]_vars

\* The revision of the handler that fans out in chunks
\* (src/unnamed/part_001, lines 785-891): one project per targeted store.
InitChunked ==
  /\ op = "create" /\ pc = "start"
  /\ response = NoResponse
  /\ calls = <<>>
  /\ ListIdle
  /\ ConcurrentIdle
  /\ SbIdle
  /\ VerifyIdle
  /\ rev = "chunked"
  /\ verifiedUsers \in {VerifiedArray(n) : n \in 1..MaxFanout}
  /\ title = "Holiday Hours"
  /\ department = <<"Operations">>
  /\ taskFile \in {NoFile} \cup
        {File([k \in 1..r |-> Line("Task", "")]) : r \in 0..MaxChunkRows}
  /\ profileFile = FALSE
  /\ clock = 1
  /\ now = 0
  /\ projSize = limit \div 2
  /\ projs = [k \in 1..Len(verifiedUsers.items) |-> StoreProject(k, k - 1)]
  /\ projectMap = EmptyProjectMap
  /\ wf = <<>>
  /\ channel = NoChannel
  /\ post = NoPost
  /\ taskCount = 0
  /\ importCount = 0

NextChunked ==
  \/ Create_Begin
  \/ Create_Channel
  \/ Create_Post
  \/ discoverProjects_Page
  \/ Chunk_TaskCall

SpecChunked == InitChunked /\ [][NextChunked]_vars

\* The installations a listing can meet: of the current, the pipe and the
\* hyphen generation, with an identifier of no generation, with a legacy
\* title and a broken one, a news channel of someone else, a task project
\* with an identifier of this system, and channels of the current
\* generation whose post holds the metadata in its teaser, kicker and body,
\* in its kicker and body, and in its body only.
ListShapes ==
  { [plugin |-> "news", extID |-> <<"adhoc", "-", "1">>,
     title |-> <<"Holiday Hours">>, accessors |-> <<"a1", "a2">>,
     createdAt |-> Iso(1), created |-> NoDate,
     posts |-> <<[PostOf(contentTeaser(<<"Ops">>, 2), <<"Ops">>,
                         <<"Holiday Hours", "<hr>">>, "published")
                    EXCEPT !.planned = TRUE]>>],
    [plugin |-> "news",
     extID |-> <<"adhoc", "_v2", "|", "1", "|", "3", "|", "Ops">>,
     title |-> <<"Recall">>, accessors |-> <<"a1">>,
     createdAt |-> Iso(2), created |-> NoDate,
     posts |-> <<PostOf(<<"Ops">>, <<>>,
                        <<"<p>", "<strong>", "Department:", "</strong>", " ",
                          "Ops", "</p>", "<p>",
                          "Please review the attached tasks.", "</p>">>,
                        "planned")>>],
    [plugin |-> "news",
     extID |-> <<"adhoc", "-", "v2", "-", "1", "-", "3", "-", "Ops">>,
     title |-> <<>>, accessors |-> <<>>,
     createdAt |-> NoDate, created |-> NoDate,
     posts |-> <<PostOf(<<"Ops">>, <<>>,
                        <<"<p>", "<strong>", "Category:", "</strong>", " ",
                          "Ops", "</p>", "<p>", "Targeted Stores:", " ", "3",
                          "</p>">>, "draft")>>],
    [plugin |-> "news", extID |-> <<"adhoc", "X">>,
     title |-> <<"Lab">>, accessors |-> <<"a1">>,
     createdAt |-> Iso(3), created |-> NoDate,
     posts |-> <<PostOf(<<>>, <<>>,
                        <<"<h3>", "Category:", "&nbsp;", "Ops", " ",
                          "Targeted Stores:", " ", "3", "</h3>">>, "draft")>>],
    [plugin |-> "news", extID |-> <<>>,
     title |-> <<"[external]", "x", ":", "3", ":", "y", ":", ":", "Ops",
                 " - ", "Old News">>,
     accessors |-> <<>>, createdAt |-> NoDate, created |-> Iso(2),
     posts |-> <<>>],
    [plugin |-> "news", extID |-> <<>>,
     title |-> <<"[external]", "x", ":", "Ops">>, accessors |-> <<"a1">>,
     createdAt |-> Iso(1), created |-> NoDate, posts |-> <<>>],
    [plugin |-> "news", extID |-> <<"news", "-", "1">>,
     title |-> <<"Store News">>, accessors |-> <<"a1">>,
     createdAt |-> Iso(1), created |-> NoDate,
     posts |-> <<PostOf(contentTeaser(<<"Ops">>, 2), <<"Ops">>, <<>>,
                        "published")>>],
    [plugin |-> "news", extID |-> <<"adhoc", "-", "2">>,
     title |-> <<"Inventory">>, accessors |-> <<"a1", "a2", "a3">>,
     createdAt |-> Iso(2), created |-> NoDate,
     posts |-> <<PostOf(<<"Count", " ", "the", " ", "stock">>, <<>>,
                        <<"Inventory", "<hr>">>, "draft")>>],
    [plugin |-> "news", extID |-> <<"adhoc", "-", "3">>,
     title |-> <<"Closing">>, accessors |-> <<"a1">>,
     createdAt |-> Iso(3), created |-> NoDate, posts |-> <<>>],
    [plugin |-> "tasks", extID |-> <<"adhoc", "-", "1">>,
     title |-> <<"Store", " ", "101">>, accessors |-> <<"a1">>,
     createdAt |-> Iso(1), created |-> NoDate, posts |-> <<>>],
    [plugin |-> "news", extID |-> <<"adhoc", "-", "4">>,
     title |-> <<"Promo">>, accessors |-> <<"a1">>,
     createdAt |-> Iso(4), created |-> NoDate,
     posts |-> <<PostOf(contentTeaser(<<"Ops">>, 2), <<"Kick">>,
                        <<"<p>", "Department:", " ", "Body", "</p>", "<p>",
                          "Targeted Stores:", " ", "7", "</p>">>, "draft")>>],
    [plugin |-> "news", extID |-> <<"adhoc", "-", "5">>,
     title |-> <<"Audit">>, accessors |-> <<"a1">>,
     createdAt |-> Iso(5), created |-> NoDate,
     posts |-> <<PostOf(<<"Hello">>, <<" ", "Kick">>,
                        <<"<p>", "Category:", " ", "Body", "</p>", "<p>",
                          "Targeted Stores:", " ", "7", "</p>">>, "draft")>>],
    [plugin |-> "news", extID |-> <<"adhoc", "-", "6">>,
     title |-> <<"Reset">>, accessors |-> <<"a1">>,
     createdAt |-> Iso(6), created |-> NoDate,
     posts |-> <<PostOf(<<>>, <<>>,
                        <<"<p>", "Category:", " ", "Body", "</p>", "<p>",
                          "Targeted Stores:", " ", "7", "</p>">>, "draft")>>] }

\* Where the installations that are not filler sit in the space, and their
\* ids.
ListPos == <<0, limit, limit - 1, limit + 1>>
ListIds == <<"c1", "c2", "c3", "c4">>
ListSizes == {0, limit \div 2, limit, limit + (limit \div 2)}

\* The space holding the shapes `sh` among `size` installations, by
\* position.
RECURSIVE ByPosition(_)
ByPosition(S) ==
  IF S = {} THEN <<>>
  ELSE LET x == CHOOSE y \in S : \A z \in S : y.pos <= z.pos
       IN  <<x>> \o ByPosition(S \ {x})
SpaceOf(sh, size) ==
  ByPosition({SpaceInst(ListPos[i], ListIds[i], sh[i].plugin, sh[i].extID,
                        sh[i].title, sh[i].accessors, sh[i].createdAt,
                        sh[i].created, sh[i].posts) :
                i \in {j \in DOMAIN sh : ListPos[j] < size}})

\* DELETE /api/delete/:id.
\* The ids a delete can name: an installation of the space, or none of them.
DeleteIds == {ListIds[i] : i \in DOMAIN ListIds} \cup {"c9"}

\* `/installations/${req.params.id}`
InstallationPath(id) == "/installations/" \o id

\* The space after the platform removed the installation `id`: the
\* installations behind it move up by one position.
Removed(ps, id) ==
  LET at   == {x.pos : x \in {y \in Range(ps) : y.id = id}}
      kept == SelectSeq(ps, LAMBDA x : x.id # id)
  IN  [k \in DOMAIN kept |->
         [kept[k] EXCEPT !.pos = IF \E q \in at : q < @ THEN @ - 1 ELSE @]]

\* res.json({ success: true })
DeleteResponse == [status |-> 200, error |-> "", body |-> [success |-> TRUE]]

\* The handler with the throw of the call answered as a success.
Delete_Answer_AlwaysSuccess(res) == DeleteResponse

\* The handler's answer after its one call: the catch answers 500 with the
\* error's message.
Delete_Answer(res) ==
  IF AwaitThrew(res) THEN ErrorResponse(500, res.message)
                     ELSE DeleteResponse

\* The whole handler: one DELETE of the installation, then the answer.
Delete_Call ==
  /\ op = "delete" /\ pc = "delete"
  /\ \E id \in DeleteIds, run \in PlatformRuns :
       LET res == sb(run) IN
       /\ calls' = Append(calls, Call("DELETE", InstallationPath(id), 0,
                                      res.message, 0))
       /\ response' = Delete_Answer(res)
       /\ IF AwaitThrew(res)
            THEN UNCHANGED <<projs, projSize>>
            ELSE /\ projs' = Removed(projs, id)
                 /\ projSize' = projSize - (Len(projs) - Len(Removed(projs, id)))
  /\ pc' = "done"
  /\ UNCHANGED <<op, concurrent, listVars, sbVars, verifyVars, rev, verifiedUsers, title,
                 department, taskFile, profileFile, clock, now, projectMap,
                 wf, channel, post, taskCount, importCount>>

\* GET /api/items, after `const items = []; let offset = 0`.
InitList ==
  /\ op = "list" /\ pc = "list-page"
  /\ response = NoResponse
  /\ calls = <<>>
  /\ ListIdle
  /\ ConcurrentIdle
  /\ SbIdle
  /\ VerifyIdle
  /\ rev = "current"
  /\ verifiedUsers = VerifiedMissing
  /\ title = ""
  /\ department = <<>>
  /\ taskFile = NoFile
  /\ profileFile = FALSE
  /\ clock = 5
  /\ now = 0
  /\ projSize \in ListSizes
  /\ \E sh \in [1..MaxInst -> ListShapes] : projs = SpaceOf(sh, projSize)
  /\ projectMap = EmptyProjectMap
  /\ wf = <<>>
  /\ channel = NoChannel
  /\ post = NoPost
  /\ taskCount = 0
  /\ importCount = 0

NextList ==
  \/ List_Page
  \/ List_Post

SpecList == InitList /\ [][NextList]_vars

\* A delete request against a space as the listing meets it.
InitDelete ==
  /\ op = "delete" /\ pc = "delete"
  /\ response = NoResponse
  /\ calls = <<>>
  /\ ListIdle
  /\ ConcurrentIdle
  /\ SbIdle
  /\ VerifyIdle
  /\ rev = "current"
  /\ verifiedUsers = VerifiedMissing
  /\ title = ""
  /\ department = <<>>
  /\ taskFile = NoFile
  /\ profileFile = FALSE
  /\ clock = 5
  /\ now = 0
  /\ projSize \in ListSizes
  /\ \E sh \in [1..MaxInst -> ListShapes] : projs = SpaceOf(sh, projSize)
  /\ projectMap = EmptyProjectMap
  /\ wf = <<>>
  /\ channel = NoChannel
  /\ post = NoPost
  /\ taskCount = 0
  /\ importCount = 0

NextDelete == Delete_Call

SpecDelete == InitDelete /\ [][NextDelete]_vars

\* A second POST /api/create, of the same targets and without files,
\* handled between the awaits of the first.  Its handler up to the first
\* await reads the clock.
Concurrent_Begin ==
  /\ op = "create" /\ concurrent.pc = "start"
  /\ concurrent' = [concurrent EXCEPT !.pc = "channel", !.now = clock]
  /\ UNCHANGED <<op, pc, response, calls, sbVars, verifyVars, createVars,
                 listVars>>

\* Its channel creation returned or threw.
Concurrent_Channel ==
  /\ op = "create" /\ concurrent.pc = "channel"
  /\ \E run \in CreateRuns :
       LET res == sb(run) IN
       concurrent' =
         IF AwaitThrew(res)
           THEN [concurrent EXCEPT !.pc = "done", !.status = 500]
           ELSE [concurrent EXCEPT
                   !.pc = "post",
                   !.channel = [made |-> TRUE, id |-> "channel-2",
                                pluginID |-> "news",
                                externalID |-> metaExternalID(concurrent.now),
                                title |-> TitleText(title),
                                accessorIDs |-> userIds(verifiedUsers)]]
  /\ UNCHANGED <<op, pc, response, calls, sbVars, verifyVars, createVars,
                 listVars>>

\* Its post creation returned or threw, and it answers.
Concurrent_Post ==
  /\ op = "create" /\ concurrent.pc = "post"
  /\ \E run \in CreateRuns :
       concurrent' = [concurrent EXCEPT
                        !.pc = "done",
                        !.status = IF AwaitThrew(sb(run)) THEN 500 ELSE 200]
  /\ UNCHANGED <<op, pc, response, calls, sbVars, verifyVars, createVars,
                 listVars>>

\* A millisecond passes on the server's clock.
Tick ==
  /\ op = "create" /\ clock < MaxClock
  /\ clock' = clock + 1
  /\ UNCHANGED <<op, pc, response, calls, sbVars, verifyVars, rev,
                 verifiedUsers, title, department, taskFile, profileFile,
                 now, projSize, projs, projectMap, wf, channel, post,
                 taskCount, importCount, listVars, concurrent>>

\* Two create requests arrive: each runs from await to await, in any order.
InitTwoCreates ==
  /\ op = "create" /\ pc = "start"
  /\ response = NoResponse
  /\ calls = <<>>
  /\ ListIdle
  /\ SbIdle
  /\ VerifyIdle
  /\ rev = "current"
  /\ verifiedUsers \in {VerifiedArray(n) : n \in 1..MaxTargets}
  /\ title = "Holiday Hours"
  /\ department = <<"Operations">>
  /\ taskFile = NoFile
  /\ profileFile = FALSE
  /\ clock = 1
  /\ now = 0
  /\ projSize = 0
  /\ projs = <<>>
  /\ projectMap = EmptyProjectMap
  /\ wf = <<>>
  /\ channel = NoChannel
  /\ post = NoPost
  /\ taskCount = 0
  /\ importCount = 0
  /\ concurrent = [NoConcurrent EXCEPT !.pc = "start"]

NextTwoCreates ==
  \/ Create_Begin
  \/ Create_Channel
  \/ Create_Post
  \/ Concurrent_Begin
  \/ Concurrent_Channel
  \/ Concurrent_Post
  \/ Tick

SpecTwoCreates == InitTwoCreates /\ [][NextTwoCreates]_vars

\* The four kinds of request, one request per behaviour.
SpecRequests ==
  (InitVerify \/ InitCreate \/ InitList \/ InitDelete)
    /\ [][NextVerify \/ NextCreate \/ NextList \/ NextDelete]_vars

\* What req.body.department can be.
Departments ==
  { <<>>, <<"undefined">>, <<" ">>, <<"Ops">>, <<"Ops", " ", "East">>,
    <<" ", "Ops">>, <<"Food", ";", " ", "Drinks">>,
    <<"Targeted Stores:", " ", "9">> }

\* A distribution is created and the space is listed afterwards.
InitRoundTrip ==
  /\ op = "create" /\ pc = "start"
  /\ response = NoResponse
  /\ calls = <<>>
  /\ ListIdle
  /\ ConcurrentIdle
  /\ SbIdle
  /\ VerifyIdle
  /\ rev = "current"
  /\ verifiedUsers \in {VerifiedArray(n) : n \in 1..MaxTargets}
  /\ title = "Holiday Hours"
  /\ department \in Departments
  /\ taskFile = NoFile
  /\ profileFile \in BOOLEAN
  /\ clock = 1
  /\ now = 0
  /\ projSize \in {0, limit}
  /\ projs = <<>>
  /\ projectMap = EmptyProjectMap
  /\ wf = <<>>
  /\ channel = NoChannel
  /\ post = NoPost
  /\ taskCount = 0
  /\ importCount = 0

NextRoundTrip ==
  \/ Create_Begin
  \/ Create_Channel
  \/ Create_Post
  \/ Create_Import
  \/ List_Begin
  \/ List_Page
  \/ List_Post

SpecRoundTrip == InitRoundTrip /\ [][NextRoundTrip]_vars

\* POST /api/create in either revision, and the two scans of the platform
\* (the directory by verify, the installations by create).
SpecCreateAll == (InitCreate \/ InitChunked) /\ [][NextCreate \/ NextChunked]_vars
SpecScans     == (InitVerify \/ InitCreate) /\ [][NextVerify \/ NextCreate]_vars

----------------------------------------------------------------------------
(* The claims.                                                             *)

NoDuplicates(q) == \A i, j \in DOMAIN q : i # j => q[i] # q[j]
Failed(out) ==
  out \in {"API 400: Bad Request", "API 500: Internal Server Error",
           "API Timeout after retries"}

\* C1: when verify answers a duplicate-free storeIds array, every requested
\* identifier is in exactly one of foundUsers (by the account's csvId) and
\* notFoundIds, the two lists together are as long as the request, and every
\* found account's csvId is one of the requested identifiers.
C1_ResolutionCompleteness ==
  (op = "verify" /\ response.status = 200 /\ NoDuplicates(reqStoreIds.items)) =>
    LET ids == reqStoreIds.items
        f   == response.body.foundUsers
        n   == response.body.notFoundIds
    IN  /\ Len(f) + Len(n) = Len(ids)
        /\ \A i \in DOMAIN ids :
             (\E j \in DOMAIN f : f[j].csvId = String(ids[i]))
               # (\E j \in DOMAIN n : n[j] = ids[i])
        /\ \A j \in DOMAIN f : \E i \in DOMAIN ids : f[j].csvId = String(ids[i])

\* A verify answered with one identifier found and one not found.
C1_Witness ==
  /\ op = "verify" /\ response.status = 200
  /\ Len(reqStoreIds.items) = 2 /\ NoDuplicates(reqStoreIds.items)
  /\ Len(response.body.foundUsers) = 1
  /\ Len(response.body.notFoundIds) = 1

\* C2: the task fan-out never has more than 5 workflows in flight, and no
\* workflow of a later batch of 5 has started while a workflow of an earlier
\* batch is not settled.
C2_FanoutBatching ==
  /\ Cardinality({i \in DOMAIN wf : wf[i].st = "flight"}) <= 5
  /\ \A i, j \in DOMAIN wf :
       ((i - 1) \div 5 < (j - 1) \div 5 /\ wf[j].st # "idle")
         => wf[i].st \in {"ok", "failed"}

\* The chunked fan-out with the sixth project's workflow in flight, after a
\* first batch in which one workflow failed and another succeeded.
C2_Witness ==
  /\ rev = "chunked" /\ Len(wf) >= 6
  /\ wf[6].st = "flight"
  /\ \E i, j \in 1..5 : wf[i].st = "failed" /\ wf[j].st = "ok"

\* C3: when the workflow of exactly one matched project threw, the create
\* request still answers success with channelId, postId and taskCount and no
\* error, and every other matched project has its task list and all its
\* tasks.
C3_PartialFanoutTolerance ==
  (op = "create" /\ rev = "current"
     /\ Cardinality({i \in DOMAIN wf : wf[i].st = "failed"}) = 1) =>
    /\ pc \in {"fanout", "import", "done"}
    /\ response.status \in {0, 200}
    /\ pc = "done" =>
         /\ response.status = 200 /\ response.error = ""
         /\ response.body.success
         /\ channel.made /\ response.body.channelId = channel.id
         /\ post.made /\ response.body.postId = post.id
         /\ response.body.taskCount = taskCount
         /\ \A i \in DOMAIN wf :
              wf[i].st # "failed" => wf[i].n = 1 + Len(tasks)

\* A create answered after the first of two projects failed at its task
\* list and the second received its list and its task.
C3_Witness ==
  /\ op = "create" /\ rev = "current" /\ pc = "done"
  /\ Len(wf) = 2 /\ Len(tasks) >= 1
  /\ wf[1].st = "failed" /\ wf[1].n = 0
  /\ wf[2].st = "ok"
  /\ response.status = 200

IsChannelCall(c)  == c.method = "POST" /\ c.path = "/installations"
IsPostCall(c)     == c.method = "POST" /\ c.path = "/posts"

\* C4: the calls of a create are the channel creation, then the post
\* creation once the channel creation returned, then the fan-out's calls
\* once the post creation returned; after a failed channel creation the
\* request answers an error and no other call is issued.
C4_CreateOrder ==
  op = "create" =>
    /\ \A i \in DOMAIN calls :
         /\ IsChannelCall(calls[i]) <=> i = 1
         /\ IsPostCall(calls[i]) <=> i = 2
         /\ i >= 2 => calls[1].out = "json"
         /\ i >= 3 => calls[2].out = "json"
    /\ pc = "post" => Len(calls) = 1 /\ calls[1].out = "json"
    /\ (pc \in {"discover", "fanout", "import"} \/ wf # <<>>)
         => Len(calls) >= 2 /\ calls[2].out = "json"
    /\ (calls # <<>> /\ Failed(calls[1].out)) =>
         /\ Len(calls) = 1 /\ pc = "done"
         /\ response.status = 500 /\ response.error = calls[1].out
         /\ ~channel.made /\ ~post.made /\ wf = <<>>

\* A create whose channel creation failed.
C4_Witness ==
  /\ op = "create" /\ pc = "done"
  /\ calls # <<>> /\ Failed(calls[1].out)

\* C5: a create with a missing or empty list of resolved accounts issues no
\* call and creates nothing, and its answer is a 4xx.
C5_NoTargetsRejected ==
  (op = "create" /\ (verifiedUsers.kind = "missing"
                     \/ (verifiedUsers.kind = "array"
                         /\ verifiedUsers.items = <<>>))) =>
    /\ calls = <<>> /\ ~channel.made /\ ~post.made /\ wf = <<>>
    /\ pc \in {"start", "done"}
    /\ pc = "done" => response.status >= 400 /\ response.status <= 499

\* A create with an empty array of resolved accounts, answered.
C5_Witness ==
  /\ op = "create" /\ pc = "done"
  /\ verifiedUsers.kind = "array" /\ verifiedUsers.items = <<>>
  /\ response.status = 400

\* C6: sb makes at most 3 attempts; every attempt but the last was answered
\* 429 and followed by the same wait of 2000 ms; a last answer that is not a
\* 429 decides the outcome; and three 429s end in the timeout error.
C6_BoundedRetry ==
  op = "sb" =>
    LET n == Len(sbStatuses) IN
    /\ n <= 3
    /\ \A i \in 1..(n - 1) : sbStatuses[i] = 429
    /\ \A i \in DOMAIN sbWaits : sbWaits[i] = 2000
    /\ Len(sbWaits) = Cardinality({i \in 1..n : sbStatuses[i] = 429})
    /\ sbOutcome.kind = "pending" => n < 3 /\ (n > 0 => sbStatuses[n] = 429)
    /\ sbOutcome.kind # "pending" =>
         /\ n >= 1
         /\ sbStatuses[n] # 429 =>
              /\ sbOutcome.status = sbStatuses[n]
              /\ sbOutcome.kind =
                   (IF sbStatuses[n] >= 200 /\ sbStatuses[n] <= 299
                      THEN "return" ELSE "throw")
              /\ sbOutcome.message # "API Timeout after retries"
         /\ sbStatuses[n] = 429 =>
              /\ n = 3
              /\ sbOutcome.kind = "throw"
              /\ sbOutcome.message = "API Timeout after retries"

\* Three attempts answered 429: the timeout.
C6_Witness ==
  /\ op = "sb"
  /\ sbStatuses = <<429, 429, 429>>
  /\ sbOutcome.message = "API Timeout after retries"

\* Whether every call of the listing returned its data.
ListingComplete ==
  op = "list" /\ pc = "done" /\ \A i \in DOMAIN calls : calls[i].out = "json"

\* C7: a listing of the space recovers, for the distribution that the
\* create made, the department, the target count and the creation time of
\* its creation.
C7_MetadataRoundTrip ==
  (ListingComplete /\ channel.made) =>
    \A i \in DOMAIN response.body.items :
      LET it == response.body.items[i] IN
      it.channelId = channel.id =>
        /\ it.department = departmentOf(department)
        /\ it.userCount = Len(userIds(verifiedUsers))
        /\ DateOf(it.createdAt) = now

\* The installation of the space an item is of.
InstOf(it) == CHOOSE x \in Range(projs) : x.id = it.channelId
BareOrHyphen(x) == StartsWith(x.externalID, <<"adhoc", "-">>)
PipeToken(x)    == StartsWith(x.externalID, <<"adhoc", "_v2", "|">>)
BracketTitle(x) == StartsWith(x.title, <<"[external]">>)

\* C8 as stated: every item of the listing is of a news installation whose
\* identifier is a pipe token, a hyphen token or has the bare 'adhoc-'
\* prefix, or whose title has the '[external]' tag.
C8_Original ==
  (op = "list" /\ pc = "done") =>
    \A i \in DOMAIN response.body.items :
      LET x == InstOf(response.body.items[i]) IN
      /\ x.pluginID = "news"
      /\ BareOrHyphen(x) \/ PipeToken(x) \/ BracketTitle(x)

\* C8, amended: every item of the listing is of a news installation whose
\* identifier starts with 'adhoc' or whose title matches the '[external]'
\* pattern; no other installation is listed.
C8_UnrecognizedExcluded ==
  (op = "list" /\ pc = "done") =>
    \A i \in DOMAIN response.body.items :
      LET x == InstOf(response.body.items[i]) IN
      /\ \E y \in Range(projs) : y.id = response.body.items[i].channelId
      /\ x.pluginID = "news"
      /\ StartsWith(x.externalID, <<"adhoc">>) \/ ExternalTitleMatch(x.title).ok

\* A complete listing of a space of a task project with an 'adhoc-'
\* identifier and a news channel of the current generation: one item.
C8_Witness ==
  /\ ListingComplete
  /\ Len(response.body.items) = 1
  /\ \E x, y \in Range(projs) :
       /\ x.pluginID = "tasks" /\ BareOrHyphen(x)
       /\ y.pluginID = "news" /\ BareOrHyphen(y)

\* The entries the directory's people before position `bound` give the map:
\* per store id, the last such person carrying it.
DirectoryMapBefore(bound) ==
  LET carriers(key) == {i \in People : /\ PersonPos[i] < bound
                                        /\ PersonPos[i] < dirSize
                                        /\ Truthy(dirPeople[i])
                                        /\ String(dirPeople[i]) = key}
      keys == {String(dirPeople[i]) : i \in {j \in People :
                 PersonPos[j] < bound /\ PersonPos[j] < dirSize
                 /\ Truthy(dirPeople[j])}}
  IN  [key \in keys |->
         LET i == CHOOSE j \in carriers(key) :
                    \A k \in carriers(key) : PersonPos[k] <= PersonPos[j]
         IN  [id |-> UserId[i], csvId |-> key]]

\* C9: when the fetch of a directory page fails, the scan makes no further
\* fetch and the map is exactly what the pages before it gave; verify is
\* never answered with an error for it, and its answer puts every requested
\* identifier absent from that map in notFoundIds.
C9_ScanFailureTolerated ==
  op = "verify" =>
    /\ response.status # 500
    /\ \A i \in DOMAIN calls :
         Failed(calls[i].out) =>
           /\ i = Len(calls)
           /\ pc \in {"resolve", "done"}
           /\ userMap = DirectoryMapBefore(calls[i].at)
           /\ pc = "done" =>
                /\ response.status = 200
                /\ \A k \in DOMAIN reqStoreIds.items :
                     String(reqStoreIds.items[k]) \notin DOMAIN userMap
                       => \E j \in DOMAIN response.body.notFoundIds :
                            response.body.notFoundIds[j] = reqStoreIds.items[k]

\* A verify answered after the second page's fetch ran out of retries: the
\* first page's account is found, and an identifier carried only by a
\* person of the second page is reported not found.
C9_Witness ==
  /\ op = "verify" /\ pc = "done"
  /\ Len(calls) = 2 /\ calls[2].out = "API Timeout after retries"
  /\ Len(response.body.foundUsers) = 1
  /\ \E k \in DOMAIN response.body.notFoundIds : \E i \in People :
       /\ PersonPos[i] >= 100 /\ Truthy(dirPeople[i])
       /\ String(dirPeople[i]) = String(response.body.notFoundIds[k])

\* The page fetches of the request's scan, in order.
PageCalls == SelectSeq(calls, LAMBDA c : c.method = "GET")
ScanSize  == IF op = "verify" THEN dirSize ELSE projSize
ScanOver  == PageCalls # <<>> /\ pc \notin {"scan", "discover"}

\* C10: the pages of a scan are fetched at offsets 0, 100, 200, ...; a page
\* is fetched only after a full page of 100 rows, so none follows an empty,
\* short or failed one; and a scan whose fetches all returned their page
\* ends having read every row exactly once.
C10_Pagination ==
  /\ \A k \in DOMAIN PageCalls : PageCalls[k].at = (k - 1) * 100
  /\ \A k \in DOMAIN PageCalls :
       k < Len(PageCalls) => PageCalls[k].out = "json" /\ PageCalls[k].rows = 100
  /\ (ScanOver /\ \A k \in DOMAIN PageCalls : PageCalls[k].out = "json") =>
       \A r \in 0..(ScanSize - 1) :
         Cardinality({k \in DOMAIN PageCalls :
                        /\ PageCalls[k].at <= r
                        /\ r < PageCalls[k].at + PageCalls[k].rows}) = 1

\* C10 as stated: whatever the fetches answered, a scan that is over has
\* read every row exactly once.
C10_Original ==
  /\ \A k \in DOMAIN PageCalls : PageCalls[k].at = (k - 1) * 100
  /\ \A k \in DOMAIN PageCalls :
       k < Len(PageCalls) => PageCalls[k].out = "json" /\ PageCalls[k].rows = 100
  /\ ScanOver =>
       \A r \in 0..(ScanSize - 1) :
         Cardinality({k \in DOMAIN PageCalls :
                        /\ PageCalls[k].at <= r
                        /\ r < PageCalls[k].at + PageCalls[k].rows}) = 1

\* A directory of exactly two full pages, scanned to the empty third page.
C10_Witness ==
  /\ op = "verify" /\ ScanOver
  /\ Len(PageCalls) = 3
  /\ \A k \in DOMAIN PageCalls : PageCalls[k].out = "json"
  /\ PageCalls[3].rows = 0

\* The matched projects, one per store: the targeted stores whose identifier
\* is the one the title of a project names, among the projects on the pages
\* that the discovery was given.
PageRead(pos) ==
  \E i \in DOMAIN calls :
    /\ calls[i].method = "GET" /\ calls[i].path = "/installations"
    /\ calls[i].out = "json"
    /\ calls[i].at <= pos /\ pos < calls[i].at + calls[i].rows
MatchedStores ==
  {tok \in Range(storeIds(verifiedUsers)) :
     \E k \in DOMAIN projs :
       PageRead(projs[k].pos) /\ StoreTitleMatch(projs[k].title) = tok}
CreateSucceeded == op = "create" /\ pc = "done" /\ response.status = 200

\* C11: the taskCount of a create that answered success is the number of
\* task rows parsed from the file times the number of matched projects,
\* whatever the workflows of the projects came to.
C11_TaskCountIsIntendedWork ==
  CreateSucceeded =>
    response.body.taskCount
      = Len(parseTaskCSV(taskFile.lines)) * Cardinality(MatchedStores)

\* A create answered after the workflow of one of two matched projects
\* threw, reporting the tasks of both.
C11_Witness ==
  /\ CreateSucceeded
  /\ Len(wf) = 2 /\ Len(tasks) >= 1
  /\ \E i \in DOMAIN wf : wf[i].st = "failed"
  /\ response.body.taskCount = 2 * Len(tasks)

\* C12: the taskCount of a create that answered success counts the tasks of
\* the projects whose workflow completed without error, and no others.
C12_TaskCountExcludesFailures ==
  CreateSucceeded =>
    response.body.taskCount
      = Len(tasks) * Cardinality({i \in DOMAIN wf : wf[i].st = "ok"})

\* The calls of the project discovery, and whether the fan-out was entered.
DiscoveryCalls == SelectSeq(calls, LAMBDA c : c.method = "GET")
FanoutEntered  == DiscoveryCalls # <<>> \/ wf # <<>>
                    \/ pc \in {"discover", "fanout"}

\* C13: a create whose request has no task file, or a task file that parses
\* to no row, issues no project-discovery, task-list or task call and reports
\* taskCount 0; the fan-out is entered only with a file of one row or more.
C13_FanoutOnlyWithRows ==
  op = "create" =>
    /\ FanoutEntered => taskFile.present /\ Len(tasks) >= 1
    /\ (CreateSucceeded /\ (~taskFile.present \/ Len(tasks) = 0))
         => response.body.taskCount = 0

\* The rows of the task file that have a title, in file order.
TitledRows == SelectSeq(taskFile.lines, LAMBDA l : l.title # "")

\* C14: the tasks of a create are exactly the rows of the file that have a
\* title, in file order: every project whose workflow completed was sent
\* that many tasks, and taskCount is that number times the matched projects.
C14_TitledRowsKept ==
  (op = "create" /\ taskFile.present /\ pc # "start") =>
    /\ [i \in DOMAIN tasks |-> tasks[i].title]
         = [i \in DOMAIN TitledRows |-> TitledRows[i].title]
    /\ \A i \in DOMAIN wf : wf[i].st = "ok" => wf[i].n = 1 + Len(TitledRows)
    /\ CreateSucceeded =>
         response.body.taskCount = Len(TitledRows) * Cardinality(MatchedStores)

\* An identifier as a pipe token 'adhoc_v2|<ts>|<count>|<department>' and as
\* a hyphen token 'adhoc-v2-<ts>-<count>-<department>'.
IsPipeToken(e) ==
  /\ Len(e) = 8 /\ SubSeq(e, 1, 3) = <<"adhoc", "_v2", "|">>
  /\ IsDigits(e[4]) /\ e[5] = "|" /\ IsDigits(e[6]) /\ e[7] = "|"
IsHyphenToken(e) ==
  /\ Len(e) = 9 /\ SubSeq(e, 1, 4) = <<"adhoc", "-", "v2", "-">>
  /\ IsDigits(e[5]) /\ e[6] = "-" /\ IsDigits(e[7]) /\ e[8] = "-"
ListDone == op = "list" /\ pc = "done"

\* C15: an item of the listing made of an installation whose identifier is
\* a pipe token has the token's creation time, count and department.
C15_PipeTokenDecoded ==
  ListDone =>
    \A i \in DOMAIN response.body.items :
      LET it == response.body.items[i]
          e  == InstOf(it).externalID
      IN  IsPipeToken(e) =>
            /\ DateOf(it.createdAt) = parseInt(e[4])
            /\ it.userCount = parseInt(e[6])
            /\ it.department = <<e[8]>>

\* C16: an item of the listing made of an installation whose identifier is
\* a hyphen token has the token's creation time, count and department.
C16_HyphenTokenDecoded ==
  ListDone =>
    \A i \in DOMAIN response.body.items :
      LET it == response.body.items[i]
          e  == InstOf(it).externalID
      IN  IsHyphenToken(e) =>
            /\ DateOf(it.createdAt) = parseInt(e[5])
            /\ it.userCount = parseInt(e[7])
            /\ it.department = <<e[9]>>

\* The bare token of the current generation, 'adhoc-<ts>'.
IsBareToken(e) == Len(e) = 3 /\ SubSeq(e, 1, 2) = <<"adhoc", "-">> /\ IsDigits(e[3])
\* Whether the fetch of the channel's post returned data.
PostFetched(id) ==
  \E i \in DOMAIN calls : calls[i].path = PostsPath(id) /\ calls[i].out = "json"
\* A post none of whose texts holds a department or a count: no keyword in
\* the teaser or the content, and no kicker.
Keywords == {"category:", "department:", "targeted stores:"}
NoMetadata(p) ==
  /\ p.kicker = <<>>
  /\ \A i \in DOMAIN p.teaser : Fold(p.teaser[i]) \notin Keywords
  /\ \A i \in DOMAIN p.content : Fold(p.content[i]) \notin Keywords
\* Whether every page of the space was fetched.
PagesComplete ==
  \A i \in DOMAIN calls :
    calls[i].path = "/installations" => calls[i].out \in {"json", "{}"}

\* C17: a news channel with the bare token whose post is absent, could not
\* be fetched, or holds no metadata is listed with department 'Uncategorized'
\* and the number of its accessors as count; no failure of its decoding
\* fails the listing.
C17_DecodeFallback ==
  ListDone =>
    /\ \A i \in DOMAIN response.body.items :
         LET it == response.body.items[i]
             x  == InstOf(it)
         IN  (IsBareToken(x.externalID)
                /\ (x.posts = <<>> \/ ~PostFetched(x.id) \/ NoMetadata(x.posts[1])))
               => /\ it.department = <<"Uncategorized">>
                  /\ it.userCount = Len(x.accessorIDs)
    /\ PagesComplete =>
         \A k \in DOMAIN projs :
           (PageRead(projs[k].pos) /\ projs[k].pluginID = "news"
              /\ IsBareToken(projs[k].externalID))
             => \E i \in DOMAIN response.body.items :
                  response.body.items[i].channelId = projs[k].id

\* A listing with the item of a bare-token channel of three accessors whose
\* post was fetched and holds no metadata.
C17_Witness ==
  /\ ListDone
  /\ \E i \in DOMAIN response.body.items :
       LET it == response.body.items[i]
           x  == InstOf(it)
       IN  /\ IsBareToken(x.externalID) /\ PostFetched(x.id)
           /\ x.posts # <<>> /\ NoMetadata(x.posts[1])
           /\ it.userCount = 3

PageFailed ==
  \E i \in DOMAIN calls : calls[i].path = "/installations" /\ Failed(calls[i].out)

\* C18: GET /api/items answers nothing but a success with an items list,
\* and the empty list when the fetch of a page of the space failed, on the
\* first page or a later one.
C18_ListNeverFails ==
  op = "list" =>
    /\ response = NoResponse
         \/ (response.status = 200 /\ response.error = ""
               /\ DOMAIN response.body = {"items"})
    /\ pc = "done" <=> response # NoResponse
    /\ PageFailed => pc = "done" /\ response.body.items = <<>>

\* A listing that made an item of the first page and then met a failed
\* fetch of the second page.
C18_Witness ==
  /\ ListDone /\ items # <<>>
  /\ Len(calls) >= 3 /\ calls[Len(calls)].path = "/installations"
  /\ calls[Len(calls)].at = 100 /\ Failed(calls[Len(calls)].out)
  /\ response.body.items = <<>>

\* The item the listing gives for installation x when the fetch of its post
\* returned (the post decoded, if there is one) and when it did not.
ItemWithPost(x)    == IF x.posts # <<>>
                        THEN Hydrate(Recognize(x, clock), x.posts[1])
                        ELSE Recognize(x, clock)
ItemWithoutPost(x) == Recognize(x, clock)
PostFailed(id) ==
  \E i \in DOMAIN calls : calls[i].path = PostsPath(id) /\ Failed(calls[i].out)
Listed(id) ==
  \E i \in DOMAIN response.body.items : response.body.items[i].channelId = id

\* C19: in a listing whose pages were all fetched, every recognized
\* installation is listed once; the one whose post fetch failed is listed
\* as Draft with its provisional department and count, and every other
\* one as it is listed when no fetch fails.
C19_PostFailureTolerated ==
  (ListDone /\ PagesComplete) =>
    /\ \A k \in DOMAIN projs :
         (PageRead(projs[k].pos) /\ Recognize(projs[k], clock).some)
           => Listed(projs[k].id)
    /\ \A i, j \in DOMAIN response.body.items :
         response.body.items[i].channelId = response.body.items[j].channelId
           => i = j
    /\ \A i \in DOMAIN response.body.items :
         LET it == response.body.items[i]
             x  == InstOf(it)
         IN  /\ PostFailed(x.id) =>
                  /\ it = ItemWithoutPost(x)
                  /\ it.status = "Draft"
             /\ PostFetched(x.id) => it = ItemWithPost(x)

\* A listing of two recognized channels where the post fetch of the first
\* failed and the post of the second was decoded.
C19_Witness ==
  /\ ListDone /\ Len(response.body.items) = 2
  /\ \E i, j \in DOMAIN response.body.items :
       LET a == InstOf(response.body.items[i])
           b == InstOf(response.body.items[j])
       IN  /\ a.pos < b.pos
           /\ PostFailed(a.id) /\ a.posts # <<>>
           /\ PostFetched(b.id) /\ b.posts # <<>>
           /\ response.body.items[j].status # "Draft"

\* C20: the items of the answer are in the order of createdAt, newest
\* first: no item is older than the one after it.
C20_NewestFirst ==
  ListDone =>
    \A i \in DOMAIN response.body.items :
      i < Len(response.body.items) =>
        DateOf(response.body.items[i].createdAt)
          >= DateOf(response.body.items[i + 1].createdAt)

\* A listing of two items of different instants of which the newer one was
\* met later in the space.
C20_Witness ==
  /\ ListDone /\ Len(response.body.items) = 2
  /\ DateOf(response.body.items[1].createdAt)
       > DateOf(response.body.items[2].createdAt)
  /\ InstOf(response.body.items[1]).pos > InstOf(response.body.items[2]).pos

\* C21: every item of a listing has one of the three statuses, by the one
\* post fetched for it: Published when the post is published, otherwise
\* Scheduled when it is planned, otherwise Draft; Draft too when the channel
\* has no post or the answer held none.
C21_StatusDerived ==
  ListDone =>
    \A i \in DOMAIN response.body.items :
      LET it == response.body.items[i]
          x  == InstOf(it)
      IN  /\ it.status \in {"Draft", "Scheduled", "Published"}
          /\ it.status =
               IF PostFetched(x.id) /\ x.posts # <<>>
               THEN IF x.posts[1].published THEN "Published"
                    ELSE IF x.posts[1].planned THEN "Scheduled"
                    ELSE "Draft"
               ELSE "Draft"
C21_Witness ==
  /\ ListDone
  /\ \E i, k \in DOMAIN response.body.items :
       /\ response.body.items[i].status = "Published"
       /\ InstOf(response.body.items[i]).posts[1].planned
       /\ response.body.items[k].status = "Draft"
       /\ PostFetched(response.body.items[k].channelId)

\* C22: in the answer of a verify, no requested identifier is reported more
\* than once: the found accounts are of distinct stores, the identifiers not
\* found are distinct, and both lists follow the order of first appearance
\* in the request.
FirstSeen(ids, v) == CHOOSE i \in DOMAIN ids : ids[i] = v /\ \A j \in 1..(i - 1) : ids[j] # v
C22_Deduplicated ==
  (op = "verify" /\ response.status = 200) =>
    LET ids == reqStoreIds.items
        f   == response.body.foundUsers
        n   == response.body.notFoundIds
    IN  /\ NoDuplicates(f)
        /\ NoDuplicates(n)
        /\ \A i, j \in DOMAIN n :
             i < j => FirstSeen(ids, n[i]) < FirstSeen(ids, n[j])

\* C24: a channel created by a create request is of the news plugin, and
\* its accessors are the account ids of the verified accounts supplied, one
\* per account and in their order: none added, none dropped.
C24_ChannelAccessors ==
  channel.made =>
    /\ channel.pluginID = "news"
    /\ Len(channel.accessorIDs) = Len(verifiedUsers.items)
    /\ \A k \in DOMAIN verifiedUsers.items :
         channel.accessorIDs[k] = verifiedUsers.items[k].id
C24_Witness ==
  /\ op = "create" /\ channel.made
  /\ Len(verifiedUsers.items) = 2
  /\ channel.accessorIDs = <<AccountIds[1], AccountIds[2]>>

\* C25: an answer that is neither a success nor a 429 is the last attempt
\* of the call: sb waits nothing after it, fetches no more, and throws an
\* error whose message holds the answer's status code and text.
C25_ErrorsNotRetried ==
  op = "sb" =>
    \A i \in DOMAIN sbStatuses :
      LET st == sbStatuses[i] IN
      (st # 429 /\ ~(st >= 200 /\ st <= 299)) =>
        /\ i = Len(sbStatuses)
        /\ Len(sbWaits) = i - 1
        /\ sbOutcome.kind = "throw"
        /\ sbOutcome.status = st
        /\ sbOutcome.message =
             (IF st = 400 THEN "API 400: Bad Request"
                          ELSE "API 500: Internal Server Error")
C25_Witness ==
  /\ op = "sb"
  /\ sbStatuses = <<429, 500>>
  /\ sbOutcome.kind = "throw"
  /\ sbOutcome.message = "API 500: Internal Server Error"

\* A call of the finished request ran out of retries.
TimedOut == \E i \in DOMAIN calls : calls[i].out = "API Timeout after retries"
PageTimedOut ==
  \E i \in DOMAIN calls :
    calls[i].path = "/installations" /\ calls[i].out = "API Timeout after retries"
RequestDone == op \in {"verify", "create", "list", "delete"} /\ pc = "done"

\* C26 as stated: a verify, create, list or delete request one of whose
\* outbound calls ran out of retries answers with a failure.
C26_Original ==
  (RequestDone /\ TimedOut) => response.status >= 400

\* C26: a call that ran out of retries fails the request when the request
\* is a create (its channel, post or project-discovery call) or a delete:
\* the answer is 500 with the timeout's message.  A verify answers 200 from
\* the directory pages read before the timeout, a listing answers 200, with
\* no items when the call was a page of the space, and a create whose task
\* workflows failed while its other calls succeeded answers 200.
C26_TimeoutReported ==
  /\ (RequestDone /\ TimedOut) =>
       /\ op \in {"create", "delete"} =>
            /\ response.status = 500
            /\ response.error = "API Timeout after retries"
       /\ op = "verify" => response.status = 200
       /\ op = "list" =>
            /\ response.status = 200
            /\ PageTimedOut => response.body.items = <<>>
  /\ (op = "create" /\ pc = "done"
        /\ (\E i \in DOMAIN wf : wf[i].st = "failed")
        /\ \A i \in DOMAIN calls : ~Failed(calls[i].out)) =>
       response.status = 200
C26_Witness ==
  /\ op = "delete" /\ pc = "done"
  /\ TimedOut
  /\ response.status = 500

\* C27: a create request with an empty title issues no platform call and
\* is answered with a 4xx status.
C27_EmptyTitleRejected ==
  (op = "create" /\ title = "") =>
    /\ calls = <<>>
    /\ ~channel.made
    /\ pc = "done" => (response.status >= 400 /\ response.status <= 499)

\* C28: a verify request whose storeIds is missing, is not an array or is
\* an empty list reads no page of the directory and is answered with a 4xx
\* status.
C28_NoStoreIdsRejected ==
  (op = "verify"
     /\ (reqStoreIds.kind # "array" \/ reqStoreIds.items = <<>>)) =>
    /\ calls = <<>>
    /\ pc = "done" => (response.status >= 400 /\ response.status <= 499)

\* C29: a create request without verified accounts but with the storeIds of
\* stores whose accounts are in the directory is not rejected for want of
\* targets: it goes on to create the channel.
C29_StoreIdsFallback ==
  (op = "create" /\ pc = "done" /\ NoVerifiedUsers(verifiedUsers)
     /\ reqStoreIds.kind = "array"
     /\ \E i \in DOMAIN reqStoreIds.items, k \in People :
          /\ PersonPos[k] < dirSize
          /\ String(dirPeople[k]) = String(reqStoreIds.items[i])) =>
    /\ response.status # 400
    /\ calls # <<>>

\* C30: a listing only reads: every outbound call it has issued is a GET,
\* and no step of it changes the installations of the space or their posts.
C30_ListReadsOnly ==
  [][op = "list" =>
       /\ \A i \in DOMAIN calls' : calls'[i].method = "GET"
       /\ projs' = projs
       /\ projSize' = projSize]_vars
C30_Witness ==
  /\ ListDone
  /\ \E i, j \in DOMAIN calls :
       /\ calls[i].path = "/installations"
       /\ calls[j].path # "/installations"
       /\ Failed(calls[j].out)
  /\ response.body.items # <<>>

\* C31: at every point of a directory scan, every entry of the lookup table
\* has a non-empty store identifier, is keyed by that identifier's string
\* form, and is the account of a person of the directory whose profile
\* field holds that identifier; a person without the field has no entry.
C31_LookupEntries ==
  op = "verify" =>
    \A k \in DOMAIN userMap :
      /\ k # ""
      /\ userMap[k].csvId = k
      /\ \E i \in People :
           /\ PersonPos[i] < dirSize
           /\ dirPeople[i] \notin {RawNone, Str("")}
           /\ String(dirPeople[i]) = k
           /\ userMap[k].id = UserId[i]
C31_Witness ==
  /\ op = "verify" /\ pc = "scan"
  /\ DOMAIN userMap = {"100"}
  /\ dirPeople[1] = RawNone /\ dirPeople[2] = Num("100")
  /\ dirPeople[3] = Str("")
  /\ dirSize > PersonPos[3]
  /\ offset > PersonPos[2]

\* The projects a task list was posted to, the store identifiers of the
\* accounts of the request, and the projects on the pages the discovery read
\* whose title names one of those stores.
Received == {instIds[i] : i \in {j \in DOMAIN wf : wf[j].st # "idle"}}
TargetTokens == {verifiedUsers.items[k].csvId : k \in DOMAIN verifiedUsers.items}
MatchingProjects ==
  {x \in Range(projs) :
     PageRead(x.pos) /\ StoreTitleMatch(x.title) \in TargetTokens}
FanoutOver ==
  op = "create" /\ wf # <<>> /\ \A i \in DOMAIN wf : wf[i].st # "idle"

\* C32 as stated: once the fan-out has reached every project, the projects
\* that were posted a task list are exactly the discovered projects whose
\* title names the store of one of the accounts.
C32_Original ==
  FanoutOver => Received = {x.id : x \in MatchingProjects}

\* C32: every project posted a task list is a discovered project whose
\* title names, by its store identifier, the store of one of the accounts;
\* a create with a task file that answers success has posted a list for
\* every such store; and once the fan-out has reached every project, each
\* such store has one project posted a list: the last one scanned of those
\* that name it.
C32_FanoutTargets ==
  op = "create" =>
    /\ Received \subseteq {x.id : x \in MatchingProjects}
    /\ (CreateSucceeded /\ taskFile.present /\ MatchingProjects # {})
         => FanoutOver
    /\ FanoutOver =>
         \A t \in TargetTokens :
           LET P == {x \in MatchingProjects : StoreTitleMatch(x.title) = t}
           IN  P # {} =>
                 \E x \in P :
                   /\ \A y \in P : y.pos <= x.pos
                   /\ Received \cap {y.id : y \in P} = {x.id}
C32_Witness ==
  /\ FanoutOver
  /\ Received = {"py", AccountIds[2] \o "-project"}
  /\ \E x \in MatchingProjects : x.id = AccountIds[1] \o "-project"
  /\ \E x \in Range(projs) : x.id = "px" /\ PageRead(x.pos)

\* C33: a create that fails after its channel was created answers with the
\* id of the channel, and with the id of the post when the post was created
\* too, so that the answer tells which steps completed.
C33_PartialResultsReported ==
  (op = "create" /\ pc = "done" /\ response.status # 200 /\ channel.made) =>
    /\ "channelId" \in DOMAIN response.body
    /\ post.made => "postId" \in DOMAIN response.body

\* The call in flight of the workflow w of the project inst is the one the
\* claim describes for the workflow's step.
WorkflowCallAsClaimed(w, inst) ==
  /\ w.st = "idle" => w.n = 0
  /\ (w.st = "flight" /\ w.n = 0) =>
       /\ w.req.call = "lists" /\ w.req.inst = inst
       /\ w.req.body.name = title
  /\ (w.st = "flight" /\ w.n >= 1) =>
       /\ w.n <= Len(TitledRows)
       /\ w.req.call = "task" /\ w.req.inst = inst
       /\ w.req.body.taskListId = inst \o "-list"
       /\ w.req.body.title = TitledRows[w.n].title
       /\ w.req.body.status = "OPEN"
       /\ "assigneeIds" \in DOMAIN w.req.body => w.req.body.assigneeIds = <<>>
  /\ w.st = "ok" => w.n = 1 + Len(tasks)

ChainDepartment(p, kicker) ==
  LET td == TeaserDepartment(p.teaser)
      bd == BodyDepartment(cleanText(p.content))
  IN  IF td.found THEN Trim(td.text)
      ELSE IF p.kicker # <<>> THEN kicker
      ELSE IF bd.found /\ bd.text # <<>> THEN Trim(bd.text)
      ELSE <<"Uncategorized">>
ChainCount(p, n) ==
  LET tc == TargetedStores(p.teaser)
      bc == TargetedStores(cleanText(p.content))
  IN  IF tc.found THEN tc.n ELSE IF bc.found THEN bc.n ELSE n
BareWithPost(x) ==
  IsBareToken(x.externalID) /\ x.posts # <<>> /\ PostFetched(x.id)

\* C35 as stated: the item of a channel with the bare token whose post was
\* fetched has the department of the chain teaser pattern, kicker verbatim,
\* body pattern, placeholder, and the count of the chain teaser, body,
\* accessors.
C35_Original ==
  ListDone =>
    \A i \in DOMAIN response.body.items :
      LET it == response.body.items[i]
          x  == InstOf(it)
      IN  BareWithPost(x) =>
            /\ it.department = ChainDepartment(x.posts[1], x.posts[1].kicker)
            /\ it.userCount = ChainCount(x.posts[1], Len(x.accessorIDs))

\* C35: the same chain, with the kicker taken without the blanks around it.
C35_FallbackChain ==
  ListDone =>
    \A i \in DOMAIN response.body.items :
      LET it == response.body.items[i]
          x  == InstOf(it)
      IN  BareWithPost(x) =>
            /\ it.department
                 = ChainDepartment(x.posts[1], Trim(x.posts[1].kicker))
            /\ it.userCount = ChainCount(x.posts[1], Len(x.accessorIDs))
C35_Witness ==
  /\ ListDone
  /\ \E i, j \in DOMAIN response.body.items :
       LET a == response.body.items[i]
           b == response.body.items[j]
       IN  /\ BareWithPost(InstOf(a)) /\ BareWithPost(InstOf(b))
           /\ a.department = <<"Ops">> /\ a.userCount = 2
           /\ InstOf(a).posts[1].kicker = <<"Kick">>
           /\ b.department = <<"Kick">> /\ b.userCount = 7
           /\ InstOf(b).posts[1].kicker = <<" ", "Kick">>

\* A create ended by a call that failed after the channel was created.
FailedAfterChannel ==
  /\ op = "create" /\ pc = "done" /\ channel.made
  /\ calls # <<>> /\ Failed(calls[Len(calls)].out)

\* C36: a create does not roll back.  It issues no DELETE; a channel and a
\* post once created stay as they are; and when the post creation or the
\* project discovery fails after the channel was created, the answer is a
\* 500 whose error is the message of that failure.
C36_NoRollback ==
  /\ [](op = "create" =>
          /\ \A i \in DOMAIN calls : calls[i].method # "DELETE"
          /\ FailedAfterChannel =>
               /\ response.status = 500
               /\ response.error = calls[Len(calls)].out
               /\ response.body = <<>>)
  /\ [][op = "create" =>
          /\ channel.made => channel' = channel
          /\ post.made => post' = post]_vars
C36_Witness ==
  /\ FailedAfterChannel
  /\ post.made
  /\ calls[Len(calls)].method = "GET"
  /\ response.error = "API 400: Bad Request"

\* A titled row of the task file has a due date that cannot be parsed.
BadDueDate ==
  /\ taskFile.present
  /\ \E i \in DOMAIN taskFile.lines :
       /\ taskFile.lines[i].title # ""
       /\ taskFile.lines[i].date \notin {"", "2025-01-31"}

\* C37: when a titled row of the task file has a due date that cannot be
\* parsed, no task of the file is posted to any project, whatever rows are
\* valid, and the create, when none of its calls fails, answers success
\* with taskCount 0.
C37_BadDateDropsAllTasks ==
  (op = "create" /\ BadDueDate) =>
    /\ \A i \in DOMAIN wf : wf[i].req.call # "task" /\ wf[i].n <= 1
    /\ (pc = "done" /\ channel.made /\ post.made
          /\ \A i \in DOMAIN calls : ~Failed(calls[i].out)) =>
         /\ response.status = 200
         /\ response.body.taskCount = 0
C37_Witness ==
  /\ CreateSucceeded /\ BadDueDate
  /\ taskFile.lines[1] = Line("Task", "2025-01-31")
  /\ Len(wf) = 2 /\ wf[1].st = "ok" /\ wf[2].st = "ok"
  /\ response.body.taskCount = 0

\* C38: the project map of a discovery holds one project per targeted
\* store, the last one scanned of the projects whose title names the store;
\* so the workflows, one per entry of the map, are never more than the
\* distinct store identifiers of the request.
C38_OneProjectPerStore ==
  op = "create" =>
    /\ DOMAIN projectMap \subseteq TargetTokens
    /\ \A t \in DOMAIN projectMap :
         \E x \in MatchingProjects :
           /\ StoreTitleMatch(x.title) = t /\ projectMap[t] = x.id
           /\ \A y \in MatchingProjects :
                StoreTitleMatch(y.title) = t => y.pos <= x.pos
    /\ wf # <<>> => Len(wf) = Cardinality(DOMAIN projectMap)
    /\ Cardinality(Received) <= Cardinality(TargetTokens)
C38_Witness ==
  /\ op = "create" /\ pc = "fanout"
  /\ Cardinality(TargetTokens) = 2
  /\ Cardinality({x \in MatchingProjects : StoreTitleMatch(x.title) = Tokens[1]}) = 2
  /\ projectMap[Tokens[1]] = "py"
  /\ Len(wf) = 2

\* C39: two channels created by two create requests have different
\* external identifiers, whenever the two requests read the clock.
C39_DistinctTokens ==
  (op = "create" /\ channel.made /\ concurrent.channel.made) =>
    channel.externalID # concurrent.channel.externalID

====
